---- MODULE Spec2Model ----
(***************************************************************************)
(* Model of the repository lifecycle state machine, the job queue and the  *)
(* polling worker of the code-intelligence service.                        *)
(*                                                                         *)
(* One repository row and its job rows live in the relational store.       *)
(* Every worker task (process_job) owns a SQLAlchemy session: it loads its *)
(* own copy of the job row and of the repository row, changes attributes   *)
(* of the copy, and a commit writes the attributes whose value differs     *)
(* from the copy's previous value (UPDATE ... WHERE id = :id).  The        *)
(* session factory sets expire_on_commit=False, so a copy keeps its values *)
(* until the code refreshes it.  Every awaited store operation is one      *)
(* step, a commit together with the db.refresh that the same function      *)
(* issues right after it; the steps of the worker loop, of the tasks and   *)
(* of the API requests interleave freely.                                  *)
(***************************************************************************)
EXTENDS Integers, Sequences, FiniteSets, TLC

\* ---------------------------------------------------------------- bounds
MaxJobs == 1          \* job rows created after the initial state
MaxSlots == 3         \* task objects alive at the same time
MaxChunks == 2        \* chunks that chunk_repository yields in one run
MaxIndexed == 52      \* chunks of the index that search_code is called on
MaxLimit == 2         \* limit and offset of a search_code call
MaxTime == 36         \* hours the clock runs
MaxQuestions == 3     \* ask_question calls on the session
MaxResults == 1       \* results search_code returns to ask_question
MaxLines == 4         \* lines of a file that is chunked
MaxVectors == 3       \* vectors added to a store that is saved and loaded

\* ------------------------------------------------------ program constants
MaxConcurrent == 2    \* worker_loop(max_concurrent=2)

None == "None"
RepoStatus ==
    {"CREATED", "CLONED", "STRUCTURED", "INDEXED", "DOCS_GENERATED", "READY", "FAILED"}
JobType == {"ingest", "index", "docs"}
OtherType == "other"             \* a type string outside JobType
JobStatus == {"pending", "running", "completed", "failed"}

\* messages of the exceptions a handler captures: str(e) of an external
\* failure (possibly the empty string) and of transition_status' ValueError
ExtMsgs == {"", "ext"}
InvMsg == "inv"

Slots == 1..MaxSlots

VARIABLES
    repo,       \* the persisted repository row
    jobs,       \* the persisted job rows, in creation order
    running,    \* the worker's module flag _running
    wpc,        \* position of worker_loop
    wmax,       \* worker_loop's max_concurrent argument
    wjobs,      \* worker_loop's local list of fetched jobs still to start
    active,     \* worker_loop's active_tasks
    tasks,      \* the task objects: position and session copies
    hist,       \* number of job rows the store held initially
    picked,     \* the jobs for which worker_loop has created a task so far
    call,       \* the last direct call of a lifecycle function and its outcome
    chunks,     \* the persisted CodeChunk rows; a row's id is its position
    files,      \* the repository's index.faiss and id_map.json on disk
    req,        \* the ingest_repository request in flight and its response
    search,     \* the search_code request in flight and its response
    tsession,   \* the persisted TutorSession row
    tmessages,  \* the persisted TutorMessage rows, in insertion order
    now,        \* the clock, in hours
    ask,        \* the ask_question request in flight and its response
    chunker     \* the file chunk_file is called on and the chunks it yields

\* the state that only indexing, search and the ingest request touch
\* the state of the tutor
tutorVars == <<tsession, tmessages, now, ask>>

extVars == <<chunks, files, req, search, tutorVars, chunker>>

vars == <<repo, jobs, running, wpc, wmax, wjobs, active, tasks, hist, picked, call,
          chunks, files, req, search, tsession, tmessages, now, ask, chunker>>

\* ============================================================ lifecycle

VALID_TRANSITIONS_Reflexive(s) ==
    CASE s = "CREATED" -> {"CLONED", "FAILED"}
      [] s = "CLONED" -> {"STRUCTURED", "FAILED"}
      [] s = "STRUCTURED" -> {"INDEXED", "FAILED"}
      [] s = "INDEXED" -> {"DOCS_GENERATED", "FAILED"}
      [] s = "DOCS_GENERATED" -> {"READY", "FAILED"}
      [] s = "READY" -> {"FAILED"}
      [] s = "FAILED" -> {"CREATED", "FAILED"}

VALID_TRANSITIONS(s) ==
    CASE s = "CREATED" -> {"CLONED", "FAILED"}
      [] s = "CLONED" -> {"STRUCTURED", "FAILED"}
      [] s = "STRUCTURED" -> {"INDEXED", "FAILED"}
      [] s = "INDEXED" -> {"DOCS_GENERATED", "FAILED"}
      [] s = "DOCS_GENERATED" -> {"READY", "FAILED"}
      [] s = "READY" -> {"FAILED"}
      [] s = "FAILED" -> {"CREATED"}

state_order(s) ==
    CASE s = "CREATED" -> 0
      [] s = "CLONED" -> 1
      [] s = "STRUCTURED" -> 2
      [] s = "INDEXED" -> 3
      [] s = "DOCS_GENERATED" -> 4
      [] s = "READY" -> 5
      [] OTHER -> -1

can_transition_to(r, new_status) == new_status \in VALID_TRANSITIONS(r.status)

\* has_reached_state without its test for FAILED
has_reached_state_ByOrder(r, required_state) ==
    state_order(r.status) >= state_order(required_state)

has_reached_state(r, required_state) ==
    IF r.status = "FAILED" THEN FALSE
    ELSE state_order(r.status) >= state_order(required_state)

\* the table with "index" moved to INDEXED
API_STATE_REQUIREMENTS_IndexLate(operation) ==
    CASE operation \in {"summary", "structure", "entrypoints"} -> "STRUCTURED"
      [] operation \in {"index", "search", "session", "ask"} -> "INDEXED"
      [] operation \in {"docs_readme", "docs_architecture"} -> "DOCS_GENERATED"
      [] OTHER -> None

API_STATE_REQUIREMENTS(operation) ==
    CASE operation \in {"summary", "structure", "entrypoints", "index"} -> "STRUCTURED"
      [] operation \in {"search", "session", "ask"} -> "INDEXED"
      [] operation \in {"docs_readme", "docs_architecture"} -> "DOCS_GENERATED"
      [] OTHER -> None

check_api_readiness(r, operation) ==
    LET required == API_STATE_REQUIREMENTS(operation) IN
    IF required = None THEN TRUE
    ELSE IF r.status = "FAILED" THEN FALSE
    ELSE has_reached_state(r, required)

\* lifecycle.check_api_readiness(db, repo_id, operation): it returns the
\* repository, or raises RepoNotReadyError with current_state = repo.status
\* and required_state = API_STATE_REQUIREMENTS.get(operation, CREATED)
lifecycle_check_api_readiness(r, operation) ==
    IF check_api_readiness(r, operation)
    THEN [raised |-> FALSE, current_state |-> None, required_state |-> None]
    ELSE [raised |-> TRUE,
          current_state |-> r.status,
          required_state |-> IF API_STATE_REQUIREMENTS(operation) = None
                             THEN "CREATED" ELSE API_STATE_REQUIREMENTS(operation)]

\* Python truthiness of an optional string
Truthy(m) == m # None /\ m # ""

\* transition_status on a session copy r, up to its commit: raised, or the
\* copy with the new status and, for FAILED with a non-empty message, the
\* message.
transition_status(r, new_status, error_message) ==
    IF ~can_transition_to(r, new_status)
    THEN [raised |-> TRUE, repo |-> r]
    ELSE [raised |-> FALSE,
          repo |-> [r EXCEPT !.status = new_status,
                             !.error_message =
                                 IF new_status = "FAILED" /\ Truthy(error_message)
                                 THEN error_message ELSE @]]

\* A commit: the UPDATE carries the attributes of the copy `after` whose
\* value differs from `before`; the other columns of the row stay.
Flush(row, before, after) ==
    [f \in DOMAIN row |-> IF after[f] # before[f] THEN after[f] ELSE row[f]]

\* ============================================================ vector store
\* A VectorStore object holds a FAISS index and the id map, the list that
\* gives the chunk id of every slot of the index.  Of the index the model
\* keeps the number of vectors; of both it keeps gen, the generation (the
\* indexing run, named by the id of the first chunk row the run inserted)
\* that built them.  gen is not data of the program: it tells the
\* artifacts of two runs apart.  Slot i (from 0) of the index is entry
\* i + 1 of ids.

\* self.index is None, or index.faiss does not exist
NoIndex == [gen |-> 0, ntotal |-> -1]

\* id_map.json does not exist
NoMap == [gen |-> -1, ids |-> <<>>]

\* the id of no row: the None that stands where a chunk id is expected
NullId == 0

\* NULL in an integer column
NullCount == -1

\* VectorStore(repo_id): no index yet, empty id map
NewVectorStore == [index |-> NoIndex, id_map |-> [gen |-> 0, ids |-> <<>>]]

\* no index.faiss and no id_map.json on disk
NoFiles == [index |-> NoIndex, id_map |-> NoMap]

\* create_index: a new empty index and an empty id map
create_index(vs) ==
    [index |-> [gen |-> 0, ntotal |-> 0], id_map |-> [gen |-> 0, ids |-> <<>>]]

\* add_embeddings(embeddings, chunk_ids) of the run g: the vectors go to
\* the index, the ids to the end of the id map
add_embeddings(vs, n_embeddings, chunk_ids, g) ==
    LET v == IF vs.index = NoIndex THEN create_index(vs) ELSE vs
    IN [index |-> [gen |-> g, ntotal |-> v.index.ntotal + n_embeddings],
        id_map |-> [gen |-> g, ids |-> v.id_map.ids \o chunk_ids]]

\* save writes the index file, then the id map file; without an index it
\* writes nothing
SaveIndexFile(vs, disk) ==
    IF vs.index = NoIndex THEN disk ELSE [disk EXCEPT !.index = vs.index]

\* json.dump(self.id_map): None is written as null, a chunk id as a string
json_dump(ids) ==
    [i \in 1..Len(ids) |-> IF ids[i] = NullId THEN [null |-> TRUE, str |-> NullId]
                                              ELSE [null |-> FALSE, str |-> ids[i]]]

\* json.load(f): null is read as None, a string as the chunk id
json_load(text) ==
    [i \in 1..Len(text) |-> IF text[i].null THEN NullId ELSE text[i].str]

SaveMapFileSkipped(vs, disk) == disk
SaveMapFile(vs, disk) ==
    IF vs.index = NoIndex THEN disk
    ELSE [disk EXCEPT !.id_map = [gen |-> vs.id_map.gen, ids |-> json_dump(vs.id_map.ids)]]

save(vs, disk) == SaveMapFile(vs, SaveIndexFile(vs, disk))

\* load, in its three steps: both files must exist; read_index; json.load
LoadExists(disk) == disk.index # NoIndex /\ disk.id_map # NoMap

LoadIndex(vs, disk) == [vs EXCEPT !.index = disk.index]

LoadMap(vs, disk) ==
    [vs EXCEPT !.id_map = [gen |-> disk.id_map.gen, ids |-> json_load(disk.id_map.ids)]]

\* get_chunk_id(index)
get_chunk_id(vs, index) ==
    IF 0 <= index /\ index < Len(vs.id_map.ids) THEN vs.id_map.ids[index + 1] ELSE NullId

\* the slots VectorStore.search can return: none without an index or with
\* an empty one; otherwise the scores decide, so any set of slots
SearchableSlots(vs) ==
    IF vs.index = NoIndex \/ vs.index.ntotal = 0 THEN {} ELSE 0..(vs.index.ntotal - 1)

\* db_chunk.id as execute_indexing reads it right after CodeChunk(...):
\* the column default (uuid4) is applied by the INSERT at flush time, so
\* the attribute of the pending object is still None.  row_id is the id
\* the row gets at the flush.
ChunkIdAfterFlush(row_id) == row_id

ChunkIdRead(row_id) == NullId

\* the chunk_ids list of a run of n chunks whose first row gets id `first`
ChunkIds(first, n) == [i \in 1..n |-> ChunkIdRead(first + i - 1)]

\* the CodeChunk rows of a run of n chunks: row i has embedding_index i
ChunkRows(n) == [i \in 1..n |-> [embedding_index |-> i - 1]]

\* ============================================================ initial state

NoRepo == [exists |-> FALSE, status |-> "CREATED", error_message |-> None, total_chunks |-> NullCount]
FreeTask == [pc |-> "free", job |-> 0,
             ljob |-> [type |-> None, status |-> None, progress |-> 0, error_message |-> None],
             lrepo |-> NoRepo, crepo |-> NoRepo, err |-> None,
             n |-> 0, first |-> 0, chunk_ids |-> <<>>, vs |-> NewVectorStore]
NoCall == [current |-> None, target |-> None, message |-> None, raised |-> FALSE]
NoRequest == [pc |-> "idle", job |-> 0]
\* no tutor session yet.  asked_at is not data of the program: it is the
\* time of the last ask_question that the session served.
NoSession == [exists |-> FALSE, last_activity_at |-> 0, rolling_conversation_summary |-> 0,
              asked_at |-> 0]
\* no ask_question request yet
NoAsk == [pc |-> "idle", q |-> 0, results |-> 0, completions |-> 0, summary |-> 0,
          response |-> None]
\* no file read yet
NoChunker == [pc |-> "idle", file_path |-> None, lines |-> <<>>, chunks |-> <<>>]
NoSearch == [pc |-> "idle", vs |-> NewVectorStore, loaded |-> FALSE, results |-> {}, total |-> 0]

\* a job row that complete_job has finished
FinishedJob(job_type) ==
    [type |-> job_type, status |-> "completed", progress |-> 100, error_message |-> None]

\* The store when the worker starts: empty, or holding the repository as
\* an earlier completed ingest job, or ingest and index job, left it.
Stores ==
    { [repo |-> NoRepo, jobs |-> <<>>],
      [repo |-> [exists |-> TRUE, status |-> "STRUCTURED", error_message |-> None, total_chunks |-> NullCount],
       jobs |-> <<FinishedJob("ingest")>>],
      [repo |-> [exists |-> TRUE, status |-> "INDEXED", error_message |-> None, total_chunks |-> 1],
       jobs |-> <<FinishedJob("ingest"), FinishedJob("index")>>] }

\* What a completed indexing run of n chunks left behind: its rows, and on
\* disk the index and the id map it saved.
StoredRows(n) == IF n > 0 THEN ChunkRows(n) ELSE <<>>

StoredFiles(n) ==
    IF n > 0
    THEN save(add_embeddings(create_index(NewVectorStore), n, ChunkIds(1, n), 1), NoFiles)
    ELSE NoFiles

InitWith(stores, max_concurrent) ==
    /\ \E st \in stores : repo = st.repo /\ jobs = st.jobs
    /\ hist = Len(jobs)
    /\ running = TRUE
    /\ wpc = "loop"
    /\ wmax = max_concurrent
    /\ wjobs = <<>>
    /\ active = {}
    /\ tasks = [s \in Slots |-> FreeTask]
    /\ picked = {}
    /\ call = NoCall
    /\ chunks = StoredRows(repo.total_chunks)
    /\ files = StoredFiles(repo.total_chunks)
    /\ req = NoRequest
    /\ search = NoSearch
    /\ tsession = NoSession
    /\ tmessages = <<>>
    /\ now = 0
    /\ ask = NoAsk
    /\ chunker = NoChunker

Init == InitWith(Stores, MaxConcurrent)

\* ============================================================ job queue

NewJob(job_type) ==
    [type |-> job_type, status |-> "pending", progress |-> 0, error_message |-> None]

\* create_job: INSERT of a pending row with progress 0
create_job(job_type) == jobs' = Append(jobs, NewJob(job_type))

JobIds == 1..Len(jobs)

\* update_progress clamps its argument to [0,100]
Clamp(progress) ==
    IF progress < 0 THEN 0 ELSE IF progress > 100 THEN 100 ELSE progress

\* get_pending_jobs: the pending rows, oldest first, at most `limit`
RECURSIVE PendingFrom(_, _)
PendingFrom(i, limit) ==
    IF i > Len(jobs) \/ limit <= 0 THEN <<>>
    ELSE IF jobs[i].status = "pending"
         THEN <<i>> \o PendingFrom(i + 1, limit - 1)
         ELSE PendingFrom(i + 1, limit)

\* the pending rows scanned from the newest one (ORDER BY created_at DESC)
RECURSIVE PendingDownFrom(_, _)
PendingDownFrom(i, limit) ==
    IF i < 1 \/ limit <= 0 THEN <<>>
    ELSE IF jobs[i].status = "pending"
         THEN <<i>> \o PendingDownFrom(i - 1, limit - 1)
         ELSE PendingDownFrom(i - 1, limit)

get_pending_jobs_newest(limit) == PendingDownFrom(Len(jobs), limit)

get_pending_jobs(limit) == PendingFrom(1, limit)

\* get_jobs_for_repo: newest first
RECURSIVE JobsNewestFirst(_)
JobsNewestFirst(i) == IF i < 1 THEN <<>> ELSE <<i>> \o JobsNewestFirst(i - 1)

\* get_jobs_for_repo without its ORDER BY created_at DESC: oldest first
JobsOldestFirst == [i \in 1..Len(jobs) |-> i]

get_jobs_for_repo == JobsNewestFirst(Len(jobs))

HasJobOfType(job_type) == \E j \in JobIds : jobs[j].type = job_type

\* ============================================================ API requests
\* Each request runs in its own session in the API process.

\* ingest_repository(url, force).  No repository row for the URL: a new
\* row in CREATED and its ingest job.  A row exists and force is set: the
\* row is reset to CREATED with no error message and a new ingest job is
\* created.  A row exists and force is not set: the request returns the row
\* and its latest job and writes nothing (every row has a job).
ingest_repository(force) ==
    /\ ~repo.exists \/ force
    /\ Len(jobs) - hist < MaxJobs
    /\ repo' = IF repo.exists
               THEN Flush(repo, repo, [repo EXCEPT !.status = "CREATED", !.error_message = None])
               ELSE [exists |-> TRUE, status |-> "CREATED", error_message |-> None, total_chunks |-> NullCount]
    /\ create_job("ingest")
    /\ UNCHANGED <<running, wpc, wmax, wjobs, active, tasks, hist, picked, call, extVars>>

\* The same request as concurrent requests see it.  Its first commit, of
\* the new or the reset repository row ...
IngestCommit(force) ==
    /\ req.pc = "idle"
    /\ ~repo.exists \/ force
    /\ Len(jobs) - hist < MaxJobs
    /\ repo' = IF repo.exists
               THEN Flush(repo, repo, [repo EXCEPT !.status = "CREATED", !.error_message = None])
               ELSE [exists |-> TRUE, status |-> "CREATED", error_message |-> None,
                     total_chunks |-> NullCount]
    /\ req' = [req EXCEPT !.pc = "job"]
    /\ UNCHANGED <<jobs, running, wpc, wmax, wjobs, active, tasks, hist, picked, call,
                   chunks, files, search, tutorVars, chunker>>

\* ... and its second commit, in create_job; it returns the job
IngestCreateJob ==
    /\ req.pc = "job"
    /\ Len(jobs) - hist < MaxJobs
    /\ create_job("ingest")
    /\ req' = [pc |-> "idle", job |-> Len(jobs) + 1]
    /\ UNCHANGED <<repo, running, wpc, wmax, wjobs, active, tasks, hist, picked, call,
                   chunks, files, search, tutorVars, chunker>>

\* ingest_repository(url, force=False) of another request when the row
\* exists: it returns the row with the first job of get_jobs_for_repo; when
\* the row has no job, it creates an ingest job and returns that.
IngestExisting ==
    /\ repo.exists
    /\ IF get_jobs_for_repo # <<>>
       THEN /\ req' = [req EXCEPT !.job = Head(get_jobs_for_repo)]
            /\ UNCHANGED jobs
       ELSE /\ Len(jobs) - hist < MaxJobs
            /\ create_job("ingest")
            /\ req' = [req EXCEPT !.job = Len(jobs) + 1]
    /\ UNCHANGED <<repo, running, wpc, wmax, wjobs, active, tasks, hist, picked, call,
                   chunks, files, search, tutorVars, chunker>>

\* search_code.  check_api_readiness(db, repo_id, "search") and
\* generate_embedding ...
SearchBegin ==
    /\ search.pc \in {"idle", "done"}
    /\ repo.exists
    /\ check_api_readiness(repo, "search")
    /\ search' = [NoSearch EXCEPT !.pc = "load"]
    /\ UNCHANGED <<repo, jobs, running, wpc, wmax, wjobs, active, tasks, hist, picked, call,
                   chunks, files, req, tutorVars, chunker>>

\* ... VectorStore(repo_id).load(): a file is missing, so load returns
\* False and search_code returns ([], 0) ...
SearchLoadExists ==
    /\ search.pc = "load"
    /\ search' = [search EXCEPT !.pc = IF LoadExists(files) THEN "read_index" ELSE "done"]
    /\ UNCHANGED <<repo, jobs, running, wpc, wmax, wjobs, active, tasks, hist, picked, call,
                   chunks, files, req, tutorVars, chunker>>

\* ... faiss.read_index ...
SearchLoadIndex ==
    /\ search.pc = "read_index"
    /\ search' = [search EXCEPT !.pc = "read_map", !.vs = LoadIndex(@, files)]
    /\ UNCHANGED <<repo, jobs, running, wpc, wmax, wjobs, active, tasks, hist, picked, call,
                   chunks, files, req, tutorVars, chunker>>

\* ... json.load of the id map: load returns True ...
SearchLoadMap ==
    /\ search.pc = "read_map"
    /\ search' = [search EXCEPT !.pc = "query", !.vs = LoadMap(@, files), !.loaded = TRUE]
    /\ UNCHANGED <<repo, jobs, running, wpc, wmax, wjobs, active, tasks, hist, picked, call,
                   chunks, files, req, tutorVars, chunker>>

\* the slots among `hits` that search_code turns into results: the id map
\* gives a chunk id for the slot and a CodeChunk row has that id
ResultSlots(vs, hits, rows) ==
    {i \in hits : get_chunk_id(vs, i) # NullId /\ get_chunk_id(vs, i) \in 1..Len(rows)}

\* ... vector_store.search, the SELECT of the chunk rows by id, and the
\* results with their total (before pagination)
SearchQuery ==
    /\ search.pc = "query"
    /\ \E hits \in SUBSET SearchableSlots(search.vs) :
          LET results == ResultSlots(search.vs, hits, chunks)
          IN search' = [search EXCEPT !.pc = "done", !.results = results,
                                      !.total = Cardinality(results)]
    /\ UNCHANGED <<repo, jobs, running, wpc, wmax, wjobs, active, tasks, hist, picked, call,
                   chunks, files, req, tutorVars, chunker>>

search_code ==
    SearchBegin \/ SearchLoadExists \/ SearchLoadIndex \/ SearchLoadMap \/ SearchQuery

\* start_indexing: needs readiness for "index"; an already indexed
\* repository gets a new job only with force or when it has no index job.
StartIndexing(force) ==
    /\ repo.exists
    /\ check_api_readiness(repo, "index")
    /\ ~(has_reached_state(repo, "INDEXED") /\ ~force /\ HasJobOfType("index"))
    /\ Len(jobs) - hist < MaxJobs
    /\ create_job("index")
    /\ UNCHANGED <<repo, running, wpc, wmax, wjobs, active, tasks, hist, picked, call, extVars>>

\* create_job called directly with a docs type or with a type string that
\* is no JobType (start_docs_generation raises on repo.status.value before
\* it reaches create_job, so docs jobs enter the queue only this way).
CreateJob(job_type) ==
    /\ repo.exists
    /\ Len(jobs) - hist < MaxJobs
    /\ create_job(job_type)
    /\ UNCHANGED <<repo, running, wpc, wmax, wjobs, active, tasks, hist, picked, call, extVars>>

Api ==
    \/ \E force \in BOOLEAN : ingest_repository(force)
    \/ \E force \in BOOLEAN : StartIndexing(force)
    \/ \E job_type \in {"docs", OtherType} : CreateJob(job_type)

\* ============================================================ worker loop

Done(s) == tasks[s].pc = "done"
Unfinished == {s \in Slots : tasks[s].pc \notin {"free", "done"}}

\* completed = {t for t in active_tasks if t.done()}
CompletedAny(act) == act

Completed(act) == {s \in act : Done(s)}

\* limit passed to get_pending_jobs

FetchLimit(max_concurrent, n_active) == max_concurrent - n_active

\* a loop that also ends when a task has ended in an error
LoopUntilTaskError(flag) == flag /\ \A s \in Slots : tasks[s].err = None

\* the loop condition `while _running`
LoopCondition(flag) == flag

\* shutdown_handler: the signal handler clears the flag
Shutdown ==
    /\ running
    /\ running' = FALSE
    /\ UNCHANGED <<repo, jobs, wpc, wmax, wjobs, active, tasks, hist, picked, call, extVars>>

\* Top of a cycle: the loop condition, the reaping of finished tasks and
\* the capacity check (no suspension point in between).
WorkerPoll ==
    /\ wpc = "loop"
    /\ IF LoopCondition(running)
       THEN LET completed == Completed(active)
                remaining == active \ completed
            IN /\ active' = remaining
               /\ tasks' = [s \in Slots |->
                              IF s \in completed /\ Done(s) THEN FreeTask ELSE tasks[s]]
               /\ wpc' = IF Cardinality(remaining) >= wmax THEN "sleep" ELSE "fetch"
       ELSE /\ wpc' = "drain"
            /\ UNCHANGED <<active, tasks>>
    /\ UNCHANGED <<repo, jobs, running, wmax, wjobs, hist, picked, call, extVars>>

\* asyncio.sleep(poll_interval); continue
WorkerSleep ==
    /\ wpc = "sleep"
    /\ wpc' = "loop"
    /\ UNCHANGED <<repo, jobs, running, wmax, wjobs, active, tasks, hist, picked, call, extVars>>

\* get_pending_jobs in the worker's own session; no job: sleep.  When the
\* store raises, the loop's except clause logs and sleeps.
WorkerFetch ==
    /\ wpc = "fetch"
    /\ \/ LET fetched == get_pending_jobs(FetchLimit(wmax, Cardinality(active)))
          IN /\ wjobs' = fetched
             /\ wpc' = IF fetched = <<>> THEN "sleep" ELSE "start"
       \/ wjobs' = <<>> /\ wpc' = "sleep"
    /\ UNCHANGED <<repo, jobs, running, wmax, active, tasks, hist, picked, call, extVars>>

FreeSlots == {s \in Slots : tasks[s].pc = "free"}

\* One turn of `for job in jobs`: log, asyncio.create_task(process_job(job)),
\* active_tasks.add(task).
WorkerStart ==
    /\ wpc = "start"
    /\ wjobs # <<>>
    /\ FreeSlots # {}
    /\ LET s == CHOOSE x \in FreeSlots : \A y \in FreeSlots : x <= y
       IN /\ tasks' = [tasks EXCEPT ![s] = [FreeTask EXCEPT !.pc = "get_job", !.job = Head(wjobs)]]
          /\ active' = active \cup {s}
    /\ picked' = picked \cup {Head(wjobs)}
    /\ wjobs' = Tail(wjobs)
    /\ wpc' = IF Tail(wjobs) = <<>> THEN "loop" ELSE "start"
    /\ UNCHANGED <<repo, jobs, running, wmax, hist, call, extVars>>

\* asyncio.gather(*active_tasks) after the loop, then worker_stopped
WorkerDrainNoWait == TRUE

WorkerDrainReady == \A s \in active : Done(s)

WorkerDrain ==
    /\ wpc = "drain"
    /\ WorkerDrainReady
    /\ wpc' = "stopped"
    /\ UNCHANGED <<repo, jobs, running, wmax, wjobs, active, tasks, hist, picked, call, extVars>>

Worker == WorkerPoll \/ WorkerSleep \/ WorkerFetch \/ WorkerStart \/ WorkerDrain

\* ============================================================ process_job
\* A task in slot s handles job tasks[s].job in its own session; ljob and
\* lrepo are the session's copies of the two rows, and crepo holds the
\* values of lrepo's attributes as of the last load or refresh: a commit
\* writes the attributes in which lrepo differs from crepo.

SetTask(s, t) == tasks' = [tasks EXCEPT ![s] = t]

\* commit of the task's changed job attributes
CommitJob(s, new_ljob) ==
    jobs' = [jobs EXCEPT ![tasks[s].job] = Flush(@, tasks[s].ljob, new_ljob)]

\* job = await get_job(db, job.id)
GetJob(s) ==
    /\ tasks[s].pc = "get_job"
    /\ SetTask(s, [tasks[s] EXCEPT !.pc = "get_repo", !.ljob = jobs[tasks[s].job]])
    /\ UNCHANGED <<repo, jobs, running, wpc, wmax, wjobs, active, hist, picked, call, extVars>>

\* repo = await get_repository(db, job.repo_id), then the dispatch on
\* job.type; an unknown type is logged and the task ends.
GetRepo(s) ==
    /\ tasks[s].pc = "get_repo"
    /\ SetTask(s, [tasks[s] EXCEPT
            !.pc = IF tasks[s].ljob.type \in JobType THEN "start" ELSE "done",
            !.lrepo = repo,
            !.crepo = repo])
    /\ UNCHANGED <<repo, jobs, running, wpc, wmax, wjobs, active, hist, picked, call, extVars>>

\* start_job: status = running, commit, refresh
StartedJob(ljob) == [ljob EXCEPT !.status = "running"]

\* the row as db.refresh(job) reads it back after the commit
Refreshed(row, before, after) == Flush(row, before, after)

start_job(s) ==
    /\ tasks[s].pc = "start"
    /\ LET new == StartedJob(tasks[s].ljob)
       IN /\ CommitJob(s, new)
          /\ SetTask(s, [tasks[s] EXCEPT
                 !.pc = "p_first",
                 !.ljob = Refreshed(jobs[tasks[s].job], tasks[s].ljob, new)])
    /\ UNCHANGED <<repo, running, wpc, wmax, wjobs, active, hist, picked, call, extVars>>

\* update_progress: progress = clamp(value), commit
ProgressedJob(ljob, value) == [ljob EXCEPT !.progress = Clamp(value)]

\* (t is the task with the assignments its code made since the last step)
UpdateProgressFrom(s, t, value, next_pc) ==
    LET new == ProgressedJob(t.ljob, value)
    IN /\ CommitJob(s, new)
       /\ SetTask(s, [t EXCEPT !.pc = next_pc, !.ljob = new])

update_progress(s, value, next_pc) == UpdateProgressFrom(s, tasks[s], value, next_pc)

\* the first update_progress of a handler: 10 for ingest and index, 20 for docs
FirstProgress(s) ==
    /\ tasks[s].pc = "p_first"
    /\ CASE tasks[s].ljob.type = "ingest" -> update_progress(s, 10, "clone")
         [] tasks[s].ljob.type = "index" -> update_progress(s, 10, "chunk")
         [] tasks[s].ljob.type = "docs" -> update_progress(s, 20, "readme")
    /\ UNCHANGED <<repo, running, wpc, wmax, wjobs, active, hist, picked, call, extVars>>

\* update_progress(db, job, 40) of execute_ingestion
Progress40(s) ==
    /\ tasks[s].pc = "p40"
    /\ update_progress(s, 40, "analyze")
    /\ UNCHANGED <<repo, running, wpc, wmax, wjobs, active, hist, picked, call, extVars>>

\* update_progress(db, job, 100) before complete_job
Progress100(s) ==
    /\ tasks[s].pc = "p100"
    /\ update_progress(s, 100, "complete")
    /\ UNCHANGED <<repo, running, wpc, wmax, wjobs, active, hist, picked, call, extVars>>

\* complete_job: status = completed, progress = 100, commit, refresh
complete_job(s) ==
    /\ tasks[s].pc = "complete"
    /\ LET new == [tasks[s].ljob EXCEPT !.status = "completed", !.progress = 100]
       IN /\ CommitJob(s, new)
          /\ SetTask(s, [tasks[s] EXCEPT
                 !.pc = IF new.type = "docs" THEN "ready" ELSE "done",
                 !.ljob = Refreshed(jobs[tasks[s].job], tasks[s].ljob, new)])
    /\ UNCHANGED <<repo, running, wpc, wmax, wjobs, active, hist, picked, call, extVars>>

\* A step of the try block raises with message m: control goes to the
\* handler's except clause.
Raise(s, m) ==
    /\ SetTask(s, [tasks[s] EXCEPT !.pc = "mark", !.err = m])
    /\ UNCHANGED <<repo, jobs>>

\* transition_status in the try block: the check on the session's copy,
\* then the commit and the refresh; an invalid transition raises ValueError.
\* (t is the task with the assignments its code made since the last step)
TransitionFrom(s, t, new_status, next_pc) ==
    LET r == transition_status(t.lrepo, new_status, None)
        row == Flush(repo, t.crepo, r.repo)
    IN IF r.raised
       THEN /\ SetTask(s, [t EXCEPT !.pc = "mark", !.err = InvMsg])
            /\ UNCHANGED <<repo, jobs>>
       ELSE /\ repo' = row
            /\ SetTask(s, [t EXCEPT !.pc = next_pc, !.lrepo = row, !.crepo = row])
            /\ UNCHANGED jobs

Transition(s, new_status, next_pc) == TransitionFrom(s, tasks[s], new_status, next_pc)

\* ------------------------------------------------------ execute_ingestion

\* clone_repository, then transition_status(CLONED)
Clone(s) ==
    /\ tasks[s].pc = "clone"
    /\ \/ \E m \in ExtMsgs : Raise(s, m)
       \/ Transition(s, "CLONED", "p40")
    /\ UNCHANGED <<running, wpc, wmax, wjobs, active, hist, picked, call, extVars>>

\* analyze_structure, then transition_status(STRUCTURED)
Analyze(s) ==
    /\ tasks[s].pc = "analyze"
    /\ \/ \E m \in ExtMsgs : Raise(s, m)
       \/ Transition(s, "STRUCTURED", "p100")
    /\ UNCHANGED <<running, wpc, wmax, wjobs, active, hist, picked, call, extVars>>

\* ------------------------------------------------------- execute_indexing

\* chunk_repository: it raises, or yields no chunk (total_chunks = 0 and
\* the transition to INDEXED right away), or yields n chunks
\* (update_progress 30 and on to embedding)
Chunk(s) ==
    /\ tasks[s].pc = "chunk"
    /\ \/ \E m \in ExtMsgs : Raise(s, m)
       \/ TransitionFrom(s, [tasks[s] EXCEPT !.lrepo.total_chunks = 0], "INDEXED", "p100")
       \/ \E n \in 1..MaxChunks :
             /\ UpdateProgressFrom(s, [tasks[s] EXCEPT !.n = n], 30, "embed")
             /\ UNCHANGED repo
    /\ UNCHANGED <<running, wpc, wmax, wjobs, active, hist, picked, call, extVars>>

\* generate_embeddings_batch, then update_progress 70
Embed(s) ==
    /\ tasks[s].pc = "embed"
    /\ \/ \E m \in ExtMsgs : Raise(s, m)
       \/ update_progress(s, 70, "rows") /\ UNCHANGED repo
    /\ UNCHANGED <<running, wpc, wmax, wjobs, active, hist, picked, call, extVars>>

\* a store that starts from the index and the id map persisted on disk
IndexingStoreLoaded(disk) ==
    IF LoadExists(disk) THEN LoadMap(LoadIndex(NewVectorStore, disk), disk)
    ELSE create_index(NewVectorStore)

\* vector_store = VectorStore(repo.id); vector_store.create_index(): a new
\* object with a new empty index, whatever is persisted on disk
IndexingStore(disk) == create_index(NewVectorStore)

\* VectorStore(repo.id).create_index(), a CodeChunk per chunk with
\* embedding_index = i, chunk_ids.append(db_chunk.id), and the commit that
\* inserts the rows
CommitRows(s) ==
    /\ tasks[s].pc = "rows"
    /\ LET first == Len(chunks) + 1
       IN /\ chunks' = chunks \o ChunkRows(tasks[s].n)
          /\ SetTask(s, [tasks[s] EXCEPT
                 !.pc = "save",
                 !.first = first,
                 !.chunk_ids = ChunkIds(first, tasks[s].n),
                 !.vs = IndexingStore(files)])
    /\ UNCHANGED <<repo, jobs, running, wpc, wmax, wjobs, active, hist, picked, call,
                   files, req, search, tutorVars, chunker>>

\* the task after vector_store.add_embeddings(embeddings, chunk_ids)
Embedded(t) == [t EXCEPT !.vs = add_embeddings(t.vs, t.n, t.chunk_ids, t.first)]

\* the task after repo.total_chunks = len(chunks)
Counted(t) == [t EXCEPT !.lrepo.total_chunks = t.n]

\* add_embeddings and save of the vector store, total_chunks, then
\* transition_status(INDEXED).  Nothing is awaited between the two file
\* writes of save, so for the other tasks of the worker they are one step.
Save(s) ==
    /\ tasks[s].pc = "save"
    /\ \/ (\E m \in ExtMsgs : Raise(s, m)) /\ UNCHANGED files
       \/ /\ files' = save(Embedded(tasks[s]).vs, files)
          /\ TransitionFrom(s, Counted(Embedded(tasks[s])), "INDEXED", "p100")
    /\ UNCHANGED <<running, wpc, wmax, wjobs, active, hist, picked, call,
                   chunks, req, search, tutorVars, chunker>>

\* The same save as a process other than the worker sees it: the write of
\* index.faiss ...
WriteIndexFile(s) ==
    /\ tasks[s].pc = "save"
    /\ \/ (\E m \in ExtMsgs : Raise(s, m)) /\ UNCHANGED files
       \/ /\ files' = SaveIndexFile(Embedded(tasks[s]).vs, files)
          /\ SetTask(s, [Embedded(tasks[s]) EXCEPT !.pc = "save_map"])
          /\ UNCHANGED <<repo, jobs>>
    /\ UNCHANGED <<running, wpc, wmax, wjobs, active, hist, picked, call,
                   chunks, req, search, tutorVars, chunker>>

\* ... and the write of id_map.json, followed by total_chunks and
\* transition_status(INDEXED)
WriteMapFile(s) ==
    /\ tasks[s].pc = "save_map"
    /\ files' = SaveMapFile(tasks[s].vs, files)
    /\ TransitionFrom(s, Counted(tasks[s]), "INDEXED", "p100")
    /\ UNCHANGED <<running, wpc, wmax, wjobs, active, hist, picked, call,
                   chunks, req, search, tutorVars, chunker>>

\* ----------------------------------------------- execute_docs_generation

\* generate_completion for the README, then update_progress 60
Readme(s) ==
    /\ tasks[s].pc = "readme"
    /\ \/ \E m \in ExtMsgs : Raise(s, m)
       \/ update_progress(s, 60, "arch") /\ UNCHANGED repo
    /\ UNCHANGED <<running, wpc, wmax, wjobs, active, hist, picked, call, extVars>>

\* generate_completion for the architecture text, then
\* transition_status(DOCS_GENERATED)
Architecture(s) ==
    /\ tasks[s].pc = "arch"
    /\ \/ \E m \in ExtMsgs : Raise(s, m)
       \/ Transition(s, "DOCS_GENERATED", "p100")
    /\ UNCHANGED <<running, wpc, wmax, wjobs, active, hist, picked, call, extVars>>

\* transition_status(READY) after complete_job
Ready(s) ==
    /\ tasks[s].pc = "ready"
    /\ Transition(s, "READY", "done")
    /\ UNCHANGED <<running, wpc, wmax, wjobs, active, hist, picked, call, extVars>>

\* ------------------------------------------------------ the except clause

\* mark_failed: transition_status(FAILED, error_msg); when that raises, the
\* exception leaves the handler, fail_job is not reached, process_job logs
\* it and the session's closing commit writes what the handler had
\* assigned to the repository without committing it.
mark_failed(s) ==
    /\ tasks[s].pc = "mark"
    /\ LET r == transition_status(tasks[s].lrepo, "FAILED", tasks[s].err)
           row == Flush(repo, tasks[s].crepo, r.repo)
       IN /\ repo' = row
          /\ SetTask(s, [tasks[s] EXCEPT
                 !.pc = IF r.raised THEN "done" ELSE "fail",
                 !.lrepo = IF r.raised THEN @ ELSE row,
                 !.crepo = IF r.raised THEN tasks[s].lrepo ELSE row])
    /\ UNCHANGED <<jobs, running, wpc, wmax, wjobs, active, hist, picked, call, extVars>>

\* fail_job: status = failed, error_message = message, commit, refresh;
\* the handler then re-raises
fail_job(s) ==
    /\ tasks[s].pc = "fail"
    /\ LET new == [tasks[s].ljob EXCEPT !.status = "failed", !.error_message = tasks[s].err]
       IN /\ CommitJob(s, new)
          /\ SetTask(s, [tasks[s] EXCEPT
                 !.pc = "done",
                 !.ljob = Refreshed(jobs[tasks[s].job], tasks[s].ljob, new)])
    /\ UNCHANGED <<repo, running, wpc, wmax, wjobs, active, hist, picked, call, extVars>>

Task(s) ==
    \/ GetJob(s) \/ GetRepo(s) \/ start_job(s)
    \/ FirstProgress(s) \/ Progress40(s) \/ Progress100(s) \/ complete_job(s)
    \/ Clone(s) \/ Analyze(s)
    \/ Chunk(s) \/ Embed(s) \/ CommitRows(s) \/ Save(s)
    \/ Readme(s) \/ Architecture(s) \/ Ready(s)
    \/ mark_failed(s) \/ fail_job(s)

\* ============================================================ specification

Next == Api \/ Shutdown \/ Worker \/ \E s \in Slots : Task(s)

Spec == Init /\ [][Next]_vars

\* The service when only ingestion is requested: the store starts empty
\* and every job is an ingest job.
IngestTask(s) ==
    \/ GetJob(s) \/ GetRepo(s) \/ start_job(s)
    \/ FirstProgress(s) \/ Progress40(s) \/ Progress100(s) \/ complete_job(s)
    \/ Clone(s) \/ Analyze(s)
    \/ mark_failed(s) \/ fail_job(s)

InitIngest == InitWith({[repo |-> NoRepo, jobs |-> <<>>]}, MaxConcurrent)

NextIngest ==
    \/ \E force \in BOOLEAN : ingest_repository(force)
    \/ Shutdown
    \/ Worker
    \/ \E s \in Slots : IngestTask(s)

SpecIngest == InitIngest /\ [][NextIngest]_vars

\* Concurrent ingestion requests for one URL while the worker runs: the
\* store starts empty, or with a repository that was ingested twice (the
\* second time with force=true).
RequestStores ==
    { [repo |-> NoRepo, jobs |-> <<>>],
      [repo |-> [exists |-> TRUE, status |-> "STRUCTURED", error_message |-> None,
                 total_chunks |-> NullCount],
       jobs |-> <<FinishedJob("ingest"), FinishedJob("ingest")>>] }

InitRequests == InitWith(RequestStores, 1)

NextRequests ==
    \/ \E force \in BOOLEAN : IngestCommit(force)
    \/ IngestCreateJob
    \/ IngestExisting
    \/ Shutdown
    \/ Worker
    \/ \E s \in Slots : IngestTask(s)

SpecRequests == InitRequests /\ [][NextRequests]_vars

\* The worker process alone, started on a queue that already holds pending
\* jobs: an ingest job of a new repository, an index job of a structured
\* one, or a docs job of an indexed one.
QueuedStores ==
    { [repo |-> [exists |-> TRUE, status |-> "CREATED", error_message |-> None, total_chunks |-> NullCount],
       jobs |-> <<NewJob("ingest")>>],
      [repo |-> [exists |-> TRUE, status |-> "STRUCTURED", error_message |-> None, total_chunks |-> NullCount],
       jobs |-> <<FinishedJob("ingest"), NewJob("index")>>],
      [repo |-> [exists |-> TRUE, status |-> "INDEXED", error_message |-> None, total_chunks |-> 1],
       jobs |-> <<FinishedJob("ingest"), FinishedJob("index"), NewJob("docs")>>] }

InitQueued == InitWith(QueuedStores, MaxConcurrent)

NextQueued ==
    \/ Shutdown
    \/ Worker
    \/ \E s \in Slots : Task(s)

SpecQueued == InitQueued /\ [][NextQueued]_vars

\* The event loop keeps running ready coroutines: as long as the worker
\* loop or a task can take a step, one of them eventually does.  (The
\* event loop in fact runs every ready coroutine, which is stronger.)
FairQueued ==
    /\ SpecQueued
    /\ WF_vars(Worker \/ \E s \in Slots : Task(s))

\* Operations one at a time: worker_loop(max_concurrent=1) runs one
\* handler at a time, and an API request is served only while no handler is
\* in flight.  The store may already hold two queued index jobs
\* (start_indexing creates one per request while the repository is not yet
\* INDEXED).
SeqStores ==
    Stores \cup QueuedStores \cup
    { [repo |-> [exists |-> TRUE, status |-> "STRUCTURED", error_message |-> None,
                 total_chunks |-> NullCount],
       jobs |-> <<FinishedJob("ingest"), NewJob("index"), NewJob("index")>>] }

InitSeq == InitWith(SeqStores, 1)

NextSeq ==
    \/ Unfinished = {} /\ Api
    \/ Shutdown
    \/ Worker
    \/ \E s \in Slots : Task(s)

SpecSeq == InitSeq /\ [][NextSeq]_vars

\* The worker started with max_concurrent = 1 on a backlog: two pending
\* jobs of one repository, so that the second waits while the first is in
\* flight.  Two index requests of a structured repository; an index job
\* still queued when a forced re-ingest reset the repository and queued an
\* ingest job; two docs jobs of an indexed repository; the ingest job of a
\* new repository and the one of a forced re-ingest that followed it.
BacklogStores ==
    { [repo |-> [exists |-> TRUE, status |-> "CREATED", error_message |-> None,
                 total_chunks |-> NullCount],
       jobs |-> <<NewJob("ingest"), NewJob("ingest")>>],
      [repo |-> [exists |-> TRUE, status |-> "STRUCTURED", error_message |-> None,
                 total_chunks |-> NullCount],
       jobs |-> <<FinishedJob("ingest"), NewJob("index"), NewJob("index")>>],
      [repo |-> [exists |-> TRUE, status |-> "CREATED", error_message |-> None,
                 total_chunks |-> NullCount],
       jobs |-> <<FinishedJob("ingest"), NewJob("index"), NewJob("ingest")>>],
      [repo |-> [exists |-> TRUE, status |-> "INDEXED", error_message |-> None,
                 total_chunks |-> 1],
       jobs |-> <<FinishedJob("ingest"), FinishedJob("index"), NewJob("docs"), NewJob("docs")>>] }

InitBacklog == InitWith(BacklogStores, 1)

SpecBacklog == InitBacklog /\ [][NextQueued]_vars

\* The event loop runs every ready coroutine: the worker loop and each
\* task take their next step when they can.  The store does not fail every
\* fetch for ever: a fetch that finds pending jobs eventually returns them.
FairBacklog ==
    /\ SpecBacklog
    /\ WF_vars(Worker)
    /\ \A s \in Slots : WF_vars(Task(s))
    /\ SF_vars(WorkerFetch /\ wpc' = "start")

\* The worker as started in either way: with two slots on the ingest job
\* of a new repository (two tasks can then be in flight at once), or with
\* one slot on a backlog of two jobs.
NewRepoStores ==
    { [repo |-> [exists |-> TRUE, status |-> "CREATED", error_message |-> None,
                 total_chunks |-> NullCount],
       jobs |-> <<NewJob("ingest")>>] }

InitWorker == InitWith(NewRepoStores, MaxConcurrent) \/ InitBacklog

SpecWorker == InitWorker /\ [][NextQueued]_vars

FairWorker ==
    /\ SpecWorker
    /\ WF_vars(Worker)
    /\ \A s \in Slots : WF_vars(Task(s))
    /\ SF_vars(WorkerFetch /\ wpc' = "start")

\* The worker (one handler at a time) indexing while the API process
\* serves searches and start_indexing requests.  The two processes share
\* the database and the index directory; between them the two file writes
\* of save are separate steps.
IndexTask(s) ==
    \/ GetJob(s) \/ GetRepo(s) \/ start_job(s)
    \/ FirstProgress(s) \/ Progress100(s) \/ complete_job(s)
    \/ Chunk(s) \/ Embed(s) \/ CommitRows(s) \/ WriteIndexFile(s) \/ WriteMapFile(s)
    \/ mark_failed(s) \/ fail_job(s)

SearchStores ==
    { [repo |-> [exists |-> TRUE, status |-> "STRUCTURED", error_message |-> None,
                 total_chunks |-> NullCount],
       jobs |-> <<FinishedJob("ingest"), NewJob("index")>>],
      [repo |-> [exists |-> TRUE, status |-> "INDEXED", error_message |-> None,
                 total_chunks |-> 1],
       jobs |-> <<FinishedJob("ingest"), FinishedJob("index")>>],
      \* indexed with a chunk, then re-ingested with force=true: the rows
      \* and the index files of the earlier run are still there
      [repo |-> [exists |-> TRUE, status |-> "STRUCTURED", error_message |-> None,
                 total_chunks |-> 1],
       jobs |-> <<FinishedJob("ingest"), FinishedJob("index"), FinishedJob("ingest"),
                  NewJob("index")>>] }

InitSearch == InitWith(SearchStores, 1)

NextSearch ==
    \/ \E force \in BOOLEAN : StartIndexing(force)
    \/ search_code
    \/ Shutdown
    \/ Worker
    \/ \E s \in Slots : IndexTask(s)

SpecSearch == InitSearch /\ [][NextSearch]_vars

\* transition_status called directly on a freshly loaded repository, for
\* every state, target and message.
CallMsgs == {None, "", "ext"}

TransitionStores ==
    { [repo |-> [exists |-> TRUE, status |-> st, error_message |-> m, total_chunks |-> NullCount], jobs |-> <<>>] :
        st \in RepoStatus, m \in {None, "ext"} }

InitTransition == InitWith(TransitionStores, MaxConcurrent)

TransitionCall(new_status, error_message) ==
    LET r == transition_status(repo, new_status, error_message)
    IN /\ repo' = IF r.raised THEN repo ELSE Flush(repo, repo, r.repo)
       /\ call' = [current |-> repo.status, target |-> new_status,
                   message |-> error_message, raised |-> r.raised]
       /\ UNCHANGED <<jobs, running, wpc, wmax, wjobs, active, tasks, hist, picked, extVars>>

NextTransition ==
    \E new_status \in RepoStatus, error_message \in CallMsgs :
        TransitionCall(new_status, error_message)

SpecTransition == InitTransition /\ [][NextTransition]_vars

\* The lifecycle queries, called on a repository that transition_status
\* moves through its states: check_api_readiness for the operations of the
\* table and for one that is not in it, has_reached_state for every state.
Operations ==
    {"summary", "structure", "entrypoints", "index", "search", "session", "ask",
     "docs_readme", "docs_architecture"}

OtherOperation == "status"

ReadinessCall(operation) ==
    /\ call' = [operation |-> operation,
                outcome |-> lifecycle_check_api_readiness(repo, operation)]
    /\ UNCHANGED <<repo, jobs, running, wpc, wmax, wjobs, active, tasks, hist, picked, extVars>>

ReachedCall(required_state) ==
    /\ call' = [required_state |-> required_state,
                result |-> has_reached_state(repo, required_state)]
    /\ UNCHANGED <<repo, jobs, running, wpc, wmax, wjobs, active, tasks, hist, picked, extVars>>

NextLifecycle ==
    \/ \E new_status \in RepoStatus, error_message \in CallMsgs :
          TransitionCall(new_status, error_message)
    \/ \E operation \in Operations \cup {OtherOperation} : ReadinessCall(operation)
    \/ \E required_state \in RepoStatus : ReachedCall(required_state)

SpecLifecycle == InitTransition /\ [][NextLifecycle]_vars

\* ------------------------------------------------- search_code as a function
\* search_code on an INDEXED repository whose index a completed run of n
\* chunks left behind, for every query, page and filter.  Scores are in
\* hundredths.  A query is the number `hi` of vectors it matches well: the
\* vectors of slots 0 .. hi - 1 score 80, the others 30, so FAISS returns
\* the slots in the order 0, 1, 2, ...

\* top_k = limit + offset + 50
HEADROOM == 50

\* settings.similarity_threshold = 0.65
similarity_threshold == 65

\* min_score = None
NoScore == -1

\* file_filter = None
NoFilter == -1

Min(a, b) == IF a < b THEN a ELSE b

\* the elements of seq that are in S, in the order of seq
RECURSIVE Keep(_, _)
Keep(seq, S) ==
    IF seq = <<>> THEN <<>>
    ELSE IF Head(seq) \in S THEN <<Head(seq)>> \o Keep(Tail(seq), S)
         ELSE Keep(Tail(seq), S)

\* the inner product of the query with the vector of a slot
Score(query, slot) == IF slot < query THEN 80 ELSE 30

\* threshold = min_score or settings.similarity_threshold: None and 0.0
\* are both falsy
Threshold(min_score) ==
    IF min_score = NoScore \/ min_score = 0 THEN similarity_threshold ELSE min_score

\* VectorStore.search(query, top_k, threshold): nothing without an index
\* or with an empty one; otherwise the min(top_k, ntotal) best slots, of
\* which those with score >= threshold are kept
vector_store_search(vs, query, top_k, threshold) ==
    IF vs.index = NoIndex \/ vs.index.ntotal = 0 THEN <<>>
    ELSE Keep([r \in 1..Min(top_k, vs.index.ntotal) |-> r - 1],
              {slot \in 0..(vs.index.ntotal - 1) : Score(query, slot) >= threshold})

\* fnmatch(chunk.file_path, file_filter) for the row with id row_id: a
\* filter rejects the files of the rows 1 .. file_filter
FilterPasses(file_filter, row_id) == file_filter = NoFilter \/ row_id > file_filter

\* search_code after the readiness check: the ids of the rows of the page
\* and the total, and with them the local search_results
search_code_result(disk, rows, query, limit, offset, min_score, file_filter) ==
    IF ~LoadExists(disk) THEN [results |-> <<>>, total |-> 0, search_results |-> <<>>]
    ELSE
      LET vs == LoadMap(LoadIndex(NewVectorStore, disk), disk)
          search_results ==
              vector_store_search(vs, query, limit + offset + HEADROOM, Threshold(min_score))
          found == {slot \in 0..(vs.index.ntotal - 1) :
                      /\ get_chunk_id(vs, slot) # NullId
                      /\ get_chunk_id(vs, slot) \in 1..Len(rows)
                      /\ FilterPasses(file_filter, get_chunk_id(vs, slot))}
          kept == Keep(search_results, found)
          results == [i \in 1..Len(kept) |-> get_chunk_id(vs, kept[i])]
          total == Len(results)
      IN [results |-> SubSeq(results, offset + 1, Min(offset + limit, total)),
          total |-> total,
          search_results |-> search_results]

\* the repository INDEXED by a run of n chunks
IndexedStores ==
    { [repo |-> [exists |-> TRUE, status |-> "INDEXED", error_message |-> None,
                 total_chunks |-> n],
       jobs |-> <<FinishedJob("ingest"), FinishedJob("index")>>] : n \in 0..MaxIndexed }

InitPages == InitWith(IndexedStores, 1)

MinScores == {NoScore, 0, 50, 99}

Filters == {NoFilter, 1, HEADROOM + 1}

\* one call of search_code; the request and its response are kept.  The
\* call changes nothing a later call reads, so one call per behaviour
\* covers them all.
SearchCall(query, limit, offset, min_score, file_filter) ==
    /\ search.pc = "idle"
    /\ check_api_readiness(repo, "search")
    /\ LET r == search_code_result(files, chunks, query, limit, offset, min_score, file_filter)
       IN search' = [pc |-> "returned", query |-> query, limit |-> limit, offset |-> offset,
                     min_score |-> min_score, file_filter |-> file_filter,
                     results |-> r.results, total |-> r.total,
                     search_results |-> r.search_results]
    /\ UNCHANGED <<repo, jobs, running, wpc, wmax, wjobs, active, tasks, hist, picked, call,
                   chunks, files, req, tutorVars, chunker>>

\* the queries tried: one that matches no vector well, one that matches
\* one, all but one, and all
Queries(n) == {0, 1, n - 1, n} \cap 0..n

NextPages ==
    \E query \in Queries(Len(chunks)), limit \in 1..MaxLimit, offset \in 0..MaxLimit,
       min_score \in MinScores, file_filter \in Filters :
        SearchCall(query, limit, offset, min_score, file_filter)

SpecPages == InitPages /\ [][NextPages]_vars

\* ------------------------------------------------ save and load, in turn

\* the chunk ids passed with a batch of n embeddings that follows `have`
\* vectors: the id of the row, or None where the row had no id yet
BatchIds(have, n) ==
    { ids \in [1..n -> 0..(have + n)] :
        \A i \in 1..n : ids[i] \in {NullId, ChunkIdAfterFlush(have + i)} }

\* VectorStore(repo_id).create_index()
StoreCreate ==
    /\ search.pc = "idle"
    /\ search' = [pc |-> "open", vs |-> create_index(NewVectorStore),
                  fresh |-> NewVectorStore, ok |-> FALSE]
    /\ UNCHANGED <<repo, jobs, running, wpc, wmax, wjobs, active, tasks, hist, picked, call,
                   chunks, files, req, tutorVars, chunker>>

\* add_embeddings of a batch, as generation 2 of the index
StoreAdd(n, chunk_ids) ==
    /\ search.pc = "open"
    /\ search.vs.index.ntotal + n <= MaxVectors
    /\ search' = [search EXCEPT !.vs = add_embeddings(@, n, chunk_ids, 2)]
    /\ UNCHANGED <<repo, jobs, running, wpc, wmax, wjobs, active, tasks, hist, picked, call,
                   chunks, files, req, tutorVars, chunker>>

\* save(), with no other writer of the files
StoreSave ==
    /\ search.pc = "open"
    /\ search' = [search EXCEPT !.pc = "saved"]
    /\ files' = save(search.vs, files)
    /\ UNCHANGED <<repo, jobs, running, wpc, wmax, wjobs, active, tasks, hist, picked, call,
                   chunks, req, tutorVars, chunker>>

\* load() into a new instance; ok is what load returns
StoreLoad ==
    /\ search.pc = "saved"
    /\ search' = [search EXCEPT
                    !.pc = "loaded",
                    !.ok = LoadExists(files),
                    !.fresh = IF LoadExists(files)
                              THEN LoadMap(LoadIndex(NewVectorStore, files), files)
                              ELSE NewVectorStore]
    /\ UNCHANGED <<repo, jobs, running, wpc, wmax, wjobs, active, tasks, hist, picked, call,
                   chunks, files, req, tutorVars, chunker>>

\* what VectorStore.search returns: (index, score) pairs
SearchResults(vs, query, top_k, threshold) ==
    LET slots == vector_store_search(vs, query, top_k, threshold)
    IN [i \in 1..Len(slots) |-> [index |-> slots[i], score |-> Score(query, slots[i])]]

InitRoundTrip == InitWith(Stores, 1)

NextRoundTrip ==
    \/ StoreCreate
    \/ \E n \in 1..MaxChunks :
         \E chunk_ids \in BatchIds(search.vs.index.ntotal, n) : StoreAdd(n, chunk_ids)
    \/ StoreSave
    \/ StoreLoad

SpecRoundTrip == InitRoundTrip /\ [][NextRoundTrip]_vars

\* ------------------------------------------------ calls on one VectorStore
\* One VectorStore object that receives create_index, add_embeddings and
\* load calls, while another process saves the store of an indexing run of
\* n chunks: faiss.write_index, then open(map_path, "w"), which truncates
\* id_map.json, then json.dump.

\* id_map.json opened for writing and not yet written: it exists and
\* json.load raises on it
PartialMap == [gen |-> -2, ids |-> <<>>]

Readable(map) == map # NoMap /\ map # PartialMap

\* index.ntotal, 0 for a store without an index
StoreSize(vs) == IF vs.index = NoIndex THEN 0 ELSE vs.index.ntotal

\* the chunk_ids argument of a call that adds to `vs`: the id given with
\* the vector that goes to slot k is k + 1; m is the length of the list
SuppliedIds(vs, m) == [i \in 1..m |-> ChunkIdAfterFlush(StoreSize(vs) + i)]

\* the store the other process saves
SavedStore(n) ==
    add_embeddings(create_index(NewVectorStore), n, SuppliedIds(NewVectorStore, n), 1)

\* load(): False when a file is missing; read_index assigns self.index;
\* json.load assigns self.id_map, or raises and load returns False
load(vs, disk) ==
    IF ~LoadExists(disk) THEN [vs |-> vs, ok |-> FALSE]
    ELSE IF ~Readable(disk.id_map) THEN [vs |-> LoadIndex(vs, disk), ok |-> FALSE]
    ELSE [vs |-> LoadMap(LoadIndex(vs, disk), disk), ok |-> TRUE]

\* VectorStore(repo_id)
VectorStoreNew ==
    /\ search.pc = "idle"
    /\ search' = [pc |-> "calls", vs |-> NewVectorStore, op |-> "new", ok |-> FALSE,
                  saving |-> "no", n |-> 0]
    /\ UNCHANGED <<repo, jobs, running, wpc, wmax, wjobs, active, tasks, hist, picked, call,
                   chunks, files, req, tutorVars, chunker>>

CallCreateIndex ==
    /\ search.pc = "calls"
    /\ search' = [search EXCEPT !.vs = create_index(@), !.op = "create_index"]
    /\ UNCHANGED <<repo, jobs, running, wpc, wmax, wjobs, active, tasks, hist, picked, call,
                   chunks, files, req, tutorVars, chunker>>

\* add_embeddings(embeddings, chunk_ids) with n vectors and m ids
CallAddEmbeddings(n, m) ==
    /\ search.pc = "calls"
    /\ StoreSize(search.vs) + n <= MaxVectors
    /\ Len(search.vs.id_map.ids) + m <= MaxVectors
    /\ search' = [search EXCEPT
                    !.vs = add_embeddings(@, n, SuppliedIds(search.vs, m), 2),
                    !.op = "add_embeddings"]
    /\ UNCHANGED <<repo, jobs, running, wpc, wmax, wjobs, active, tasks, hist, picked, call,
                   chunks, files, req, tutorVars, chunker>>

CallLoad ==
    /\ search.pc = "calls"
    /\ search' = [search EXCEPT !.vs = load(@, files).vs, !.ok = load(search.vs, files).ok,
                                !.op = "load"]
    /\ UNCHANGED <<repo, jobs, running, wpc, wmax, wjobs, active, tasks, hist, picked, call,
                   chunks, files, req, tutorVars, chunker>>

\* the other process in save(): faiss.write_index ...
SaverWriteIndex(n) ==
    /\ search.pc = "calls"
    /\ search.saving = "no"
    /\ search' = [search EXCEPT !.saving = "index", !.n = n]
    /\ files' = SaveIndexFile(SavedStore(n), files)
    /\ UNCHANGED <<repo, jobs, running, wpc, wmax, wjobs, active, tasks, hist, picked, call,
                   chunks, req, tutorVars, chunker>>

\* ... open(self._map_path, "w") ...
SaverOpenMap ==
    /\ search.pc = "calls"
    /\ search.saving = "index"
    /\ search' = [search EXCEPT !.saving = "map"]
    /\ files' = [files EXCEPT !.id_map = PartialMap]
    /\ UNCHANGED <<repo, jobs, running, wpc, wmax, wjobs, active, tasks, hist, picked, call,
                   chunks, req, tutorVars, chunker>>

\* ... json.dump(self.id_map, f) and the close of the file
SaverDumpMap ==
    /\ search.pc = "calls"
    /\ search.saving = "map"
    /\ search' = [search EXCEPT !.saving = "no"]
    /\ files' = SaveMapFile(SavedStore(search.n), files)
    /\ UNCHANGED <<repo, jobs, running, wpc, wmax, wjobs, active, tasks, hist, picked, call,
                   chunks, req, tutorVars, chunker>>

InitStoreCalls == InitWith(Stores, 1)

NextStoreCalls ==
    \/ VectorStoreNew
    \/ CallCreateIndex
    \/ \E n \in 1..MaxChunks, m \in 0..MaxChunks : CallAddEmbeddings(n, m)
    \/ CallLoad
    \/ \E n \in 1..MaxChunks : SaverWriteIndex(n)
    \/ SaverOpenMap
    \/ SaverDumpMap

SpecStoreCalls == InitStoreCalls /\ [][NextStoreCalls]_vars

\* ------------------------------------------------ the calls that only read

\* get_repository finds the row
FindsAnyRepository(r) == TRUE
FindsRepository(r) == r.exists

\* lifecycle.check_api_readiness(db, repo_id, operation) from its first
\* line: the error it raises, or None when it returns the repository
ReadinessError(r, operation) ==
    IF ~FindsRepository(r) THEN "RepoNotFoundError"
    ELSE IF lifecycle_check_api_readiness(r, operation).raised THEN "RepoNotReadyError"
    ELSE None

\* a repository missing or in any status, with or without the rows and the
\* files of an indexing run
ReadStores ==
    { [repo |-> NoRepo, jobs |-> <<>>] }
    \cup { [repo |-> [exists |-> TRUE, status |-> st, error_message |-> None,
                      total_chunks |-> n],
            jobs |-> <<FinishedJob("ingest")>>] : st \in RepoStatus, n \in {NullCount, 1} }

InitReadPath == InitWith(ReadStores, 1)

\* one request that calls search_code: the error raised, or the page and
\* the total.  The request's session is committed or, after an error,
\* rolled back with no row changed in it.
SearchRequest(query, limit, offset) ==
    /\ search.pc = "idle"
    /\ LET error == ReadinessError(repo, "search")
           r == search_code_result(files, chunks, query, limit, offset, NoScore, NoFilter)
       IN search' = IF error # None
                    THEN [pc |-> "raised", error |-> error, results |-> <<>>, total |-> 0]
                    ELSE [pc |-> "returned", error |-> None, results |-> r.results,
                          total |-> r.total]
    /\ UNCHANGED <<repo, jobs, running, wpc, wmax, wjobs, active, tasks, hist, picked, call,
                   chunks, files, req, tutorVars, chunker>>

\* one request that calls check_api_readiness for an operation
ReadinessRequest(operation) ==
    /\ call' = [operation |-> operation, error |-> ReadinessError(repo, operation)]
    /\ UNCHANGED <<repo, jobs, running, wpc, wmax, wjobs, active, tasks, hist, picked, extVars>>

NextReadPath ==
    \/ \E query \in 0..1, limit \in 1..MaxLimit, offset \in 0..1 :
         SearchRequest(query, limit, offset)
    \/ \E operation \in Operations : ReadinessRequest(operation)

SpecReadPath == InitReadPath /\ [][NextReadPath]_vars

\* ================================================================== tutor

session_ttl_hours == 24
SUMMARY_MIN_MESSAGES == 4

NOT_FOUND_ANSWER == "This could not be found in the repository."

\* the response ask_question returns when the search found no code
NotFoundResponse ==
    [answer |-> NOT_FOUND_ANSWER, references |-> 0, confidence |-> 0, answered |-> FALSE]

\* what generate_chat_completion can return: JSON that answers, JSON that
\* declines, and text that is not JSON
Completions == {"answer", "decline", "text"}

\* the response ask_question builds from the completion (json.loads and
\* its fallback); references is the number of references, confidence is
\* in hundredths
ParseCompletion(completion, results) ==
    CASE completion = "answer" ->
            [answer |-> "completion", references |-> 1, confidence |-> 85, answered |-> TRUE]
      [] completion = "decline" -> NotFoundResponse
      [] OTHER ->
            [answer |-> "completion", references |-> Min(results, 3), confidence |-> 50,
             answered |-> TRUE]

\* get_session's expiry test on the row it read
SessionExpiredAfter(ttl_hours, last_activity_at) == now - last_activity_at > ttl_hours
SessionExpired(last_activity_at) == SessionExpiredAfter(session_ttl_hours, last_activity_at)

\* ask_question's test of the search results
HasNoContextNever(results) == FALSE
HasNoContext(results) == results = 0

TutorMessage(role, q) == [role |-> role, q |-> q]

\* a terminal position of ask_question
AskDone == {"idle", "expired", "not_ready", "not_found", "answered", "failed"}

\* create_session: the row is inserted with last_activity_at = now()
create_session ==
    /\ ask.pc \in AskDone
    /\ ~tsession.exists
    /\ check_api_readiness(repo, "session")
    /\ tsession' = [exists |-> TRUE, last_activity_at |-> now,
                    rolling_conversation_summary |-> 0, asked_at |-> now]
    /\ UNCHANGED <<repo, jobs, running, wpc, wmax, wjobs, active, tasks, hist, picked, call,
                   chunks, files, req, search, tmessages, now, ask, chunker>>

\* time passes between two requests
Tick(hours) ==
    /\ ask.pc \in AskDone
    /\ now + hours <= MaxTime
    /\ now' = now + hours
    /\ UNCHANGED <<repo, jobs, running, wpc, wmax, wjobs, active, tasks, hist, picked, call,
                   chunks, files, req, search, tsession, tmessages, ask, chunker>>

\* ask_question, up to the return of get_session
AskGetSession ==
    /\ ask.pc \in AskDone
    /\ tsession.exists
    /\ ask.q < MaxQuestions
    /\ ask' = [NoAsk EXCEPT !.q = ask.q + 1,
                            !.pc = IF SessionExpired(tsession.last_activity_at)
                                   THEN "expired" ELSE "search"]
    /\ UNCHANGED <<repo, jobs, running, wpc, wmax, wjobs, active, tasks, hist, picked, call,
                   chunks, files, req, search, tsession, tmessages, now, chunker>>

\* search_code for the question, and the return when it found nothing.  The
\* number of results is whatever the index holds for the question.
AskSearch(results) ==
    /\ ask.pc = "search"
    /\ IF ~check_api_readiness(repo, "search")
       THEN ask' = [ask EXCEPT !.pc = "not_ready"] /\ UNCHANGED tsession
       ELSE IF HasNoContext(results)
       THEN /\ ask' = [ask EXCEPT !.pc = "not_found", !.results = results,
                                  !.response = NotFoundResponse]
            /\ tsession' = [tsession EXCEPT !.asked_at = now]
       ELSE /\ ask' = [ask EXCEPT !.pc = "complete", !.results = results]
            /\ UNCHANGED tsession
    /\ UNCHANGED <<repo, jobs, running, wpc, wmax, wjobs, active, tasks, hist, picked, call,
                   chunks, files, req, search, tmessages, now, chunker>>

\* get_recent_messages, generate_chat_completion and the parse of its text
AskComplete(completion) ==
    /\ ask.pc = "complete"
    /\ ask' = [ask EXCEPT !.pc = "flush_user", !.completions = @ + 1,
                          !.response = ParseCompletion(completion, ask.results)]
    /\ UNCHANGED <<repo, jobs, running, wpc, wmax, wjobs, active, tasks, hist, picked, call,
                   chunks, files, req, search, tsession, tmessages, now, chunker>>

\* db.add(user_msg); db.flush(): the row is written inside the open
\* transaction, db.add(assistant_msg) follows
AskFlushUser ==
    /\ ask.pc = "flush_user"
    /\ ask' = [ask EXCEPT !.pc = "summary"]
    /\ UNCHANGED <<repo, jobs, running, wpc, wmax, wjobs, active, tasks, hist, picked, call,
                   chunks, files, req, search, tsession, tmessages, now, chunker>>

\* the rows get_recent_messages reads inside update_rolling_summary: the
\* committed ones and the flushed user message (autoflush is off, the
\* assistant message is still pending)
MessagesSeen == Append(tmessages, TutorMessage("user", ask.q))

\* update_rolling_summary: the summary is named by the question of the
\* newest message it was built from; 0 is no change
update_rolling_summary ==
    IF Len(MessagesSeen) < SUMMARY_MIN_MESSAGES THEN 0 ELSE ask.q

AskSummary ==
    /\ ask.pc = "summary"
    /\ ask' = [ask EXCEPT !.pc = "commit", !.summary = update_rolling_summary]
    /\ UNCHANGED <<repo, jobs, running, wpc, wmax, wjobs, active, tasks, hist, picked, call,
                   chunks, files, req, search, tsession, tmessages, now, chunker>>

\* db.commit(): both messages become durable together; the session row is
\* updated, and its onupdate sets last_activity_at, only if the summary
\* was assigned
AskCommit ==
    /\ ask.pc = "commit"
    /\ ask' = [ask EXCEPT !.pc = "answered"]
    /\ tmessages' = tmessages \o <<TutorMessage("user", ask.q), TutorMessage("assistant", ask.q)>>
    /\ tsession' = IF ask.summary = 0
                   THEN [tsession EXCEPT !.asked_at = now]
                   ELSE [tsession EXCEPT !.rolling_conversation_summary = ask.summary,
                                         !.last_activity_at = now,
                                         !.asked_at = now]
    /\ UNCHANGED <<repo, jobs, running, wpc, wmax, wjobs, active, tasks, hist, picked, call,
                   chunks, files, req, search, now, chunker>>

\* an await of ask_question raises after the search: the completion, a
\* statement or the commit fails, and the session of the request is rolled
\* back
AskRaise ==
    /\ ask.pc \in {"complete", "flush_user", "summary", "commit"}
    /\ ask' = [ask EXCEPT !.pc = "failed", !.response = None]
    /\ UNCHANGED <<repo, jobs, running, wpc, wmax, wjobs, active, tasks, hist, picked, call,
                   chunks, files, req, search, tsession, tmessages, now, chunker>>

ask_question ==
    \/ AskGetSession
    \/ \E results \in 0..MaxResults : AskSearch(results)
    \/ \E completion \in Completions : AskComplete(completion)
    \/ AskFlushUser
    \/ AskSummary
    \/ AskCommit
    \/ AskRaise

\* the repository a tutor session can be created for
TutorStores ==
    { [repo |-> [exists |-> TRUE, status |-> "INDEXED", error_message |-> None,
                 total_chunks |-> 1],
       jobs |-> <<FinishedJob("ingest"), FinishedJob("index")>>] }

InitTutor == InitWith(TutorStores, 1)

\* the steps of the clock: half the time to live, and an hour more
Hours == {session_ttl_hours \div 2, session_ttl_hours \div 2 + 1}

NextTutor ==
    \/ create_session
    \/ \E hours \in Hours : Tick(hours)
    \/ ask_question

SpecTutor == InitTutor /\ [][NextTutor]_vars

\* =============================================================== chunking

MAX_TOKENS == 1500
OVERLAP_TOKENS == 200
MIN_CONTENT_CHARS == 50

\* the lines files are made of.  kind is what class_pattern and
\* func_pattern find in the stripped line, indent the width of the leading
\* whitespace, words the length of line.split(), chars the length of line.
BlankLine == [kind |-> "blank", indent |-> 0, words |-> 0, chars |-> 0]
DefLine == [kind |-> "def", indent |-> 0, words |-> 2, chars |-> 8]
MethodLine == [kind |-> "def", indent |-> 4, words |-> 2, chars |-> 16]
ClassLine == [kind |-> "class", indent |-> 0, words |-> 2, chars |-> 8]
CodeLine == [kind |-> "code", indent |-> 0, words |-> 100, chars |-> 199]
BodyLine == [kind |-> "code", indent |-> 4, words |-> 100, chars |-> 203]
LongLine == [kind |-> "code", indent |-> 0, words |-> 600, chars |-> 1199]
HugeLine == [kind |-> "code", indent |-> 0, words |-> 1200, chars |-> 2399]

LineTypes == {BlankLine, DefLine, MethodLine, ClassLine, CodeLine, BodyLine, LongLine, HugeLine}

\* content.split("\n") of the files read: at least one line
FileContents == UNION { [1..n -> LineTypes] : n \in 1..MaxLines }

Paths == {"src/a.py", "src/a.js", "dist/a.min.js"}

detect_language(file_path) ==
    CASE file_path = "src/a.py" -> "python"
      [] OTHER -> "javascript"

should_skip_file(file_path) == file_path = "dist/a.min.js"

\* int(len(words) * 1.3)
count_tokens(words) == (words * 13) \div 10

RECURSIVE SumWords(_)
SumWords(lines) ==
    IF lines = <<>> THEN 0 ELSE lines[1].words + SumWords(Tail(lines))

RECURSIVE SumTokens(_)
SumTokens(lines) ==
    IF lines = <<>> THEN 0 ELSE count_tokens(lines[1].words) + SumTokens(Tail(lines))

\* len(content.strip()): leading and trailing blank lines and the indent
\* of the first line left go
StrippedLength(lines) ==
    LET full == { i \in 1..Len(lines) : lines[i].kind # "blank" }
    IN IF full = {} THEN 0
       ELSE LET first == CHOOSE i \in full : \A j \in full : i <= j
                last == CHOOSE i \in full : \A j \in full : j <= i
                RECURSIVE Chars(_)
                Chars(i) == IF i > last THEN 0 ELSE lines[i].chars + Chars(i + 1)
            IN Chars(first) + (last - first) - lines[first].indent

CodeChunk(start_line, end_line, content, symbol_type, token_count) ==
    [start_line |-> start_line, end_line |-> end_line, content |-> content,
     symbol_type |-> symbol_type, token_count |-> token_count]

\* the loop over reversed(current_chunk_lines), from line k down
RECURSIVE OverlapLines(_, _, _, _)
OverlapLines(current_chunk_lines, k, overlap_tokens_count, overlap_tokens) ==
    IF k = 0 THEN <<>>
    ELSE LET prev_tokens == count_tokens(current_chunk_lines[k].words)
         IN IF overlap_tokens_count + prev_tokens > overlap_tokens
            THEN <<>>
            ELSE Append(OverlapLines(current_chunk_lines, k - 1,
                                     overlap_tokens_count + prev_tokens, overlap_tokens),
                        current_chunk_lines[k])

\* current_start_line of the chunk opened at line i
NextStartAfterEnd(i, overlap_lines) == i
NextStart(i, overlap_lines) == i - Len(overlap_lines)

\* the loop of sliding_window_chunk from line i on, and the final yield
RECURSIVE SlidingFrom(_, _, _, _, _, _, _)
SlidingFrom(lines, i, current_chunk_lines, current_start_line, current_tokens, max_tokens, overlap_tokens) ==
    IF i > Len(lines)
    THEN IF current_chunk_lines # <<>>
         THEN <<CodeChunk(current_start_line, Len(lines), current_chunk_lines, None,
                          current_tokens)>>
         ELSE <<>>
    ELSE LET line_tokens == count_tokens(lines[i].words)
         IN IF current_tokens + line_tokens > max_tokens /\ current_chunk_lines # <<>>
            THEN LET overlap_lines == OverlapLines(current_chunk_lines,
                                                   Len(current_chunk_lines), 0, overlap_tokens)
                 IN <<CodeChunk(current_start_line, i - 1, current_chunk_lines, None,
                                current_tokens)>>
                    \o SlidingFrom(lines, i + 1, Append(overlap_lines, lines[i]),
                                   NextStart(i, overlap_lines),
                                   SumTokens(overlap_lines) + line_tokens,
                                   max_tokens, overlap_tokens)
            ELSE SlidingFrom(lines, i + 1, Append(current_chunk_lines, lines[i]),
                             current_start_line, current_tokens + line_tokens,
                             max_tokens, overlap_tokens)

sliding_window_chunk(lines, max_tokens, overlap_tokens) ==
    SlidingFrom(lines, 1, <<>>, 1, 0, max_tokens, overlap_tokens)

NoSymbol == [type |-> None, start |-> 0]

SymbolChunk(current_symbol, end_line, current_lines) ==
    CodeChunk(current_symbol.start, end_line, current_lines, current_symbol.type,
              count_tokens(SumWords(current_lines)))

\* the loop of extract_python_symbols from line i on, and the final yield
RECURSIVE SymbolsFrom(_, _, _, _, _)
SymbolsFrom(lines, i, current_symbol, current_lines, current_indent) ==
    IF i > Len(lines)
    THEN IF current_symbol # NoSymbol /\ current_lines # <<>>
         THEN <<SymbolChunk(current_symbol, Len(lines), current_lines)>>
         ELSE <<>>
    ELSE LET line == lines[i]
             yielded == IF current_symbol # NoSymbol /\ current_lines # <<>>
                        THEN <<SymbolChunk(current_symbol, i - 1, current_lines)>>
                        ELSE <<>>
         IN IF line.kind \in {"class", "def"}
            THEN yielded
                 \o SymbolsFrom(lines, i + 1,
                                [type |-> IF line.kind = "class" THEN "class" ELSE "function",
                                 start |-> i],
                                <<line>>, line.indent)
            ELSE IF current_symbol # NoSymbol
            THEN IF line.kind = "blank" \/ line.indent >= current_indent
                 THEN SymbolsFrom(lines, i + 1, current_symbol, Append(current_lines, line),
                                  current_indent)
                 ELSE <<SymbolChunk(current_symbol, i - 1, current_lines)>>
                      \o SymbolsFrom(lines, i + 1, NoSymbol, <<>>, current_indent)
            ELSE SymbolsFrom(lines, i + 1, current_symbol, current_lines, current_indent)

extract_python_symbols(lines) == SymbolsFrom(lines, 1, NoSymbol, <<>>, 0)

\* chunk_file returns before it chunks anything
FileSkipped(file_path, lines) ==
    \/ should_skip_file(file_path)
    \/ StrippedLength(lines) < MIN_CONTENT_CHARS

chunk_file_result(file_path, lines) ==
    IF FileSkipped(file_path, lines) THEN <<>>
    ELSE LET symbols == IF detect_language(file_path) = "python"
                        THEN extract_python_symbols(lines)
                        ELSE <<>>
         IN IF symbols # <<>> THEN symbols
            ELSE sliding_window_chunk(lines, MAX_TOKENS, OVERLAP_TOKENS)

\* a file of the checkout is read
ReadFile ==
    /\ chunker.pc = "idle"
    /\ \E file_path \in Paths, lines \in FileContents :
        chunker' = [pc |-> "read", file_path |-> file_path, lines |-> lines, chunks |-> <<>>]
    /\ UNCHANGED <<repo, jobs, running, wpc, wmax, wjobs, active, tasks, hist, picked, call,
                   chunks, files, req, search, tutorVars>>

\* chunk_file on the file read
chunk_file ==
    /\ chunker.pc = "read"
    /\ chunker' = [chunker EXCEPT !.pc = "chunked",
                                  !.chunks = chunk_file_result(chunker.file_path, chunker.lines)]
    /\ UNCHANGED <<repo, jobs, running, wpc, wmax, wjobs, active, tasks, hist, picked, call,
                   chunks, files, req, search, tutorVars>>

\* sliding_window_chunk on the content read, with its default arguments
SlidingWindowCall ==
    /\ chunker.pc = "read"
    /\ chunker' = [chunker EXCEPT !.pc = "windowed",
                                  !.chunks = sliding_window_chunk(chunker.lines, MAX_TOKENS,
                                                                  OVERLAP_TOKENS)]
    /\ UNCHANGED <<repo, jobs, running, wpc, wmax, wjobs, active, tasks, hist, picked, call,
                   chunks, files, req, search, tutorVars>>

InitChunking == InitWith({[repo |-> NoRepo, jobs |-> <<>>]}, 1)

NextChunking ==
    \/ ReadFile
    \/ chunk_file
    \/ SlidingWindowCall

SpecChunking == InitChunking /\ [][NextChunking]_vars

\* ============================================================ claims

\* the transition table as the specification states it
AllowedPairs ==
    { <<"CREATED", "CLONED">>, <<"CREATED", "FAILED">>,
      <<"CLONED", "STRUCTURED">>, <<"CLONED", "FAILED">>,
      <<"STRUCTURED", "INDEXED">>, <<"STRUCTURED", "FAILED">>,
      <<"INDEXED", "DOCS_GENERATED">>, <<"INDEXED", "FAILED">>,
      <<"DOCS_GENERATED", "READY">>, <<"DOCS_GENERATED", "FAILED">>,
      <<"READY", "FAILED">>,
      <<"FAILED", "CREATED">> }

TerminalStatus == {"completed", "failed"}

\* worker_loop creates a task in slot s in this step
TaskCreated(s) == tasks[s].pc = "free" /\ tasks'[s].pc = "get_job"

\* the handler of the task in slot s hands control back in this step,
\* after one of its steps raised
ReturnsAfterRaise(s) ==
    /\ tasks[s].pc \notin {"free", "done"}
    /\ tasks'[s].pc = "done"
    /\ tasks'[s].err # None

\* C1: a transition_status call on a pair of the table succeeds and
\* persists the target status; a call on any other pair, self-transitions
\* included, raises and leaves status and error message as they were.
C1_TransitionTable ==
    [][\A new_status \in RepoStatus, error_message \in CallMsgs :
          TransitionCall(new_status, error_message) =>
              IF <<repo.status, new_status>> \in AllowedPairs
              THEN ~call'.raised /\ repo'.status = new_status
              ELSE /\ call'.raised
                   /\ repo'.status = repo.status
                   /\ repo'.error_message = repo.error_message]_vars

\* a retry transition FAILED -> CREATED has been made and persisted
C1_Witness ==
    /\ call.current = "FAILED" /\ call.target = "CREATED" /\ ~call.raised
    /\ repo.status = "CREATED"

\* C2: no step of a worker task moves the persisted status along a pair
\* that is not in the transition table, whatever the other tasks do.
C2_TasksFollowTable ==
    [][\A s \in Slots :
          (Task(s) /\ repo'.status # repo.status) =>
              <<repo.status, repo'.status>> \in AllowedPairs]_vars

\* C3: with the operations run one at a time, every change of the
\* persisted status follows the transition table (so CREATED is re-entered
\* only from FAILED).
C3_SequentialFollowsTable ==
    [][(repo.exists /\ repo'.status # repo.status) =>
          <<repo.status, repo'.status>> \in AllowedPairs]_vars

\* C4: a job whose persisted status is completed or failed keeps that
\* status in every later step.
C4_TerminalJobsStay ==
    [][\A j \in JobIds :
          jobs[j].status \in TerminalStatus => jobs'[j].status = jobs[j].status]_vars

\* C5: when a handler hands control back after one of its steps raised,
\* the repository is FAILED with the captured message stored and the job
\* is failed with that message.
C5_RaiseMarksFailed ==
    [][\A s \in Slots :
          ReturnsAfterRaise(s) =>
              LET m == tasks'[s].err
                  j == tasks'[s].job
              IN /\ repo'.status = "FAILED"
                 /\ Truthy(m) => repo'.error_message = m
                 /\ jobs'[j].status = "failed"
                 /\ jobs'[j].error_message = m]_vars

\* C6: while a job stays running its persisted progress never decreases.
C6_ProgressMonotone ==
    [][\A j \in JobIds :
          (jobs[j].status = "running" /\ jobs'[j].status = "running") =>
              jobs'[j].progress >= jobs[j].progress]_vars

C8_UnknownTypeDroppedOnce ==
    [][\A s \in Slots :
          (TaskCreated(s) /\ jobs[tasks'[s].job].type \notin JobType) =>
              tasks'[s].job \notin picked]_vars

\* C9: once the shutdown signal has cleared the flag, worker_loop creates
\* no task.
C9_NoTaskAfterShutdown ==
    [][~running => \A s \in Slots : ~TaskCreated(s)]_vars

\* C10: after the shutdown signal worker_loop eventually returns (given
\* that the event loop keeps running ready coroutines and that every
\* handler step finishes), and when it has returned every task it
\* dispatched has finished.
C10_ShutdownDrains ==
    /\ (~running) ~> (wpc = "stopped")
    /\ [](wpc = "stopped" => Unfinished = {})

\* the loop has exited on the signal and waits for tasks still in flight
C10_Witness == ~running /\ wpc = "drain" /\ Unfinished # {}


\* an index task that has passed transition_status(INDEXED) after a run
\* that yielded chunks
IndexedRun(s) ==
    /\ tasks[s].pc = "p100"
    /\ jobs[tasks[s].job].type = "index"
    /\ tasks[s].n > 0

\* C11: after a successful execute_indexing on n > 0 chunks, the saved id
\* map has n entries and slot i holds the id of the CodeChunk row whose
\* embedding_index is i.
C11_IdMapHoldsRowIds ==
    \A s \in Slots :
        IndexedRun(s) =>
            /\ Len(files.id_map.ids) = tasks[s].n
            /\ \A i \in 1..tasks[s].n :
                  /\ json_load(files.id_map.ids)[i] \in 1..Len(chunks)
                  /\ json_load(files.id_map.ids)[i] = tasks[s].first + i - 1
                  /\ chunks[json_load(files.id_map.ids)[i]].embedding_index = i - 1

\* C12: a search that loads the vector store while an indexing task saves
\* a new generation gets the index and the id map of the same generation,
\* each complete (one id map entry per vector).
C12_LoadSeesOneGeneration ==
    search.loaded =>
        /\ search.vs.index.gen = search.vs.id_map.gen
        /\ Len(search.vs.id_map.ids) = search.vs.index.ntotal

\* a task running an index job whose repository was INDEXED or later when
\* the task loaded it: the job start_indexing(force=true) created
Reindex(s) ==
    /\ tasks[s].pc \notin {"free", "get_job", "get_repo"}
    /\ tasks[s].ljob.type = "index"
    /\ tasks[s].crepo.status \in {"INDEXED", "DOCS_GENERATED", "READY"}

\* C13: the index job that start_indexing(force=true) creates on an
\* INDEXED repository re-indexes it: the run enters the except clause
\* (which marks the repository FAILED and fails the job) only when one of
\* its steps raised, never because of the transition to INDEXED.
C13_ForcedReindexCompletes ==
    \A s \in Slots :
        Reindex(s) /\ tasks[s].pc = "mark" => tasks[s].err \in ExtMsgs

\* a task whose index run found no chunk and passed
\* transition_status(INDEXED)
ZeroChunkRun(s) ==
    /\ tasks[s].pc \in {"p100", "complete", "done"}
    /\ tasks[s].ljob.type = "index"
    /\ tasks[s].n = 0
    /\ tasks[s].err = None

NoStepRaised == \A s \in Slots : tasks[s].err = None

\* C16: while the worker executes an ingest job and the clone, the size
\* check and the structure analysis succeed, the persisted status changes
\* only from CREATED to CLONED and from CLONED to STRUCTURED, and an
\* execution that has ended leaves the job completed with progress 100.
C16_IngestPassesInOrder ==
    /\ [][((\A j \in JobIds : jobs[j].type = "ingest")
              /\ NoStepRaised' /\ repo'.status # repo.status)
            => <<repo.status, repo'.status>> \in
                   {<<"CREATED", "CLONED">>, <<"CLONED", "STRUCTURED">>}]_vars
    /\ [](\A s \in Slots :
              (tasks[s].pc = "done" /\ tasks[s].ljob.type = "ingest" /\ NoStepRaised)
                  => /\ jobs[tasks[s].job].status = "completed"
                     /\ jobs[tasks[s].job].progress = 100)

\* C17: a repository holds a non-empty error_message only while its
\* status is FAILED.
C17_ErrorMessageOnlyWhenFailed ==
    repo.exists /\ Truthy(repo.error_message) => repo.status = "FAILED"

\* the order of the states as the specification numbers them: CREATED 0,
\* CLONED 1, STRUCTURED 2, INDEXED 3, DOCS_GENERATED 4, READY 5
StatedOrder(st) ==
    CHOOSE i \in 0..5 :
        <<"CREATED", "CLONED", "STRUCTURED", "INDEXED", "DOCS_GENERATED", "READY">>[i + 1] = st

\* the minimum state of an operation as the specification states it
StatedMinimum(operation) ==
    IF operation \in {"summary", "structure", "entrypoints", "index"} THEN "STRUCTURED"
    ELSE IF operation \in {"search", "session", "ask"} THEN "INDEXED"
    ELSE "DOCS_GENERATED"

\* C18: for an operation of the readiness table, check_api_readiness
\* succeeds exactly when the status is not FAILED and its order is at least
\* the order of the operation's minimum state; otherwise it raises the
\* not-ready error with the current state and the required state.
C18_ReadinessTable ==
    ("operation" \in DOMAIN call /\ call.operation \in Operations) =>
        LET ready == /\ repo.status # "FAILED"
                     /\ StatedOrder(repo.status) >= StatedOrder(StatedMinimum(call.operation))
        IN /\ call.outcome.raised = ~ready
           /\ call.outcome.raised =>
                 /\ call.outcome.current_state = repo.status
                 /\ call.outcome.required_state = StatedMinimum(call.operation)

\* "search" was refused on a FAILED repository with the not-ready error
C18_Witness ==
    /\ "operation" \in DOMAIN call
    /\ call.operation = "search"
    /\ repo.status = "FAILED"
    /\ call.outcome = [raised |-> TRUE, current_state |-> "FAILED",
                       required_state |-> "INDEXED"]

\* C19: has_reached_state is false for every required state when the
\* status is FAILED; for another status it is true exactly when the order
\* of the status is at least the order of the required state.
C19_ReachedState ==
    "required_state" \in DOMAIN call =>
        IF repo.status = "FAILED"
        THEN call.result = FALSE
        ELSE call.required_state # "FAILED" =>
                 call.result = (StatedOrder(repo.status) >= StatedOrder(call.required_state))

\* a FAILED repository that carries the message of its failure was asked
\* for CREATED
C19_Witness ==
    /\ "required_state" \in DOMAIN call
    /\ repo.status = "FAILED" /\ repo.error_message = "ext"
    /\ call.required_state = "CREATED"
    /\ call.result = FALSE

\* C20: the stored progress of a job is always within 0..100, and once
\* complete_job has stored completed with progress 100, no later
\* update_progress lowers the stored progress.
C20_ProgressClampedAndKept ==
    /\ [](\A j \in JobIds : jobs[j].progress \in 0..100)
    /\ [][\A j \in JobIds :
              jobs[j].status = "completed" => jobs'[j].progress >= jobs[j].progress]_vars

\* the ids of the indexed chunks that pass the threshold and the filter,
\* best score first
PassingRows(rows, query, threshold, file_filter) ==
    Keep([r \in 1..Len(rows) |-> r],
         {r \in 1..Len(rows) :
             /\ Score(query, rows[r].embedding_index) >= threshold
             /\ FilterPasses(file_filter, r)})

\* C21: the total that search_code returns is the number of indexed chunks
\* that pass the threshold and the filter, whatever offset and limit are.
C21_TotalIsCountOfPassing ==
    search.pc = "returned" =>
        search.total =
            Len(PassingRows(chunks, search.query, Threshold(search.min_score),
                            search.file_filter))

\* the pages that search_code returns for the offsets offset,
\* offset + limit, ... below `last`, one after the other
RECURSIVE PagesFrom(_, _, _, _, _, _, _, _)
PagesFrom(disk, rows, query, limit, offset, min_score, file_filter, last) ==
    IF offset >= last THEN <<>>
    ELSE search_code_result(disk, rows, query, limit, offset, min_score, file_filter).results
         \o PagesFrom(disk, rows, query, limit, offset + limit, min_score, file_filter, last)

\* C22: the pages of search_code for the offsets 0, limit, 2 * limit, ...
\* put one after the other are the chunks that pass the threshold and the
\* filter, each once, best score first.
C22_PagesCoverPassing ==
    (search.pc = "returned" /\ search.offset = 0) =>
        PagesFrom(files, chunks, search.query, search.limit, 0, search.min_score,
                  search.file_filter, Len(chunks))
            = PassingRows(chunks, search.query, Threshold(search.min_score),
                          search.file_filter)

\* the threshold as the specification states it: the caller's min_score
\* when one is supplied, the configured default otherwise
StatedThreshold(min_score) ==
    IF min_score = NoScore THEN similarity_threshold ELSE min_score

\* C23: of the candidates that the index returns, search_code keeps
\* exactly those whose score is at least the min_score the caller supplied
\* (0 included), or at least the configured default when none was
\* supplied; with a min_score above the best score it returns ([], 0).
C23_KeepsScoresAtLeastMinScore ==
    (search.pc = "returned" /\ LoadExists(files)) =>
        /\ search.search_results =
              Keep([r \in 1..Min(search.limit + search.offset + HEADROOM, Len(chunks)) |-> r - 1],
                   {slot \in 0..(Len(chunks) - 1) :
                       Score(search.query, slot) >= StatedThreshold(search.min_score)})
        /\ (\A slot \in 0..(Len(chunks) - 1) : Score(search.query, slot) < search.min_score)
              => search.results = <<>> /\ search.total = 0

\* C24: when the search for a question found no code, ask_question returns
\* answered = false, confidence 0.0, no references and the fixed text
\* "This could not be found in the repository.", and it has not invoked
\* the completion.
C24_NoResultsNoCompletion ==
    (ask.pc \in {"complete", "flush_user", "summary", "commit", "answered", "failed",
                 "not_found"}
        /\ ask.results = 0) =>
        /\ ask.pc = "not_found"
        /\ ask.response = [answer |-> "This could not be found in the repository.",
                           references |-> 0, confidence |-> 0, answered |-> FALSE]
        /\ ask.completions = 0

\* a second question on the session found no code, after an answered one
C24_Witness ==
    /\ ask.pc = "not_found"
    /\ ask.q = 2
    /\ Len(tmessages) = 2

\* ask_question fails in this step after db.flush() wrote the user message
FailsAfterUserFlush == ask.pc \in {"summary", "commit"} /\ ask'.pc = "failed"

\* C25: for an answered question the user message is committed on its own
\* before the assistant message, so when ask_question fails after the user
\* message was written, the user message is in the stored history.
C25_UserMessageSurvivesFailure ==
    [][FailsAfterUserFlush =>
        \E i \in 1..Len(tmessages') : tmessages'[i] = TutorMessage("user", ask.q)]_vars

\* get_session answers a new ask_question in this step
GetSessionAnswers == ask'.q = ask.q + 1

\* C26: a session is rejected as expired exactly when more than the time
\* to live has passed since its last activity, and every ask_question the
\* session served is an activity, as is its creation.
C26_ExpiresAfterInactivity ==
    [][GetSessionAnswers =>
        (ask'.pc = "expired" <=> now - tsession.asked_at > session_ttl_hours)]_vars

\* the number of trailing lines of a chunk that fit the overlap budget
StatedOverlap(content, overlap_tokens) ==
    LET fits == { k \in 0..Len(content) :
                    SumTokens(SubSeq(content, Len(content) - k + 1, Len(content)))
                        <= overlap_tokens }
    IN CHOOSE k \in fits : \A j \in fits : j <= k

\* the lines of chunk k that no earlier chunk holds
UniqueSpan(cs, k) ==
    IF k = 1 THEN cs[1].start_line..cs[1].end_line
    ELSE (cs[k - 1].end_line + 1)..cs[k].end_line

\* C27: for an input of at least one line sliding_window_chunk covers the
\* whole file: the first chunk starts at line 1, the last chunk ends at
\* the last line, end lines strictly increase, each later chunk starts at
\* prev.end_line - overlap_lines + 1 and never after prev.end_line + 1,
\* and the spans of the chunks without their overlap hold every line
\* exactly once.
C27_SlidingWindowCoversFile ==
    chunker.pc = "windowed" =>
        LET cs == chunker.chunks
            n == Len(chunker.lines)
        IN /\ Len(cs) >= 1
           /\ cs[1].start_line = 1
           /\ cs[Len(cs)].end_line = n
           /\ \A k \in 1..(Len(cs) - 1) :
                /\ cs[k].end_line < cs[k + 1].end_line
                /\ cs[k + 1].start_line
                      = cs[k].end_line - StatedOverlap(cs[k].content, OVERLAP_TOKENS) + 1
                /\ cs[k + 1].start_line <= cs[k].end_line + 1
           /\ \A l \in 1..n : Cardinality({ k \in 1..Len(cs) : l \in UniqueSpan(cs, k) }) = 1

\* three chunks, the second of which starts inside the first
C27_Witness ==
    /\ chunker.pc = "windowed"
    /\ Len(chunker.chunks) = 3
    /\ chunker.chunks[2].start_line <= chunker.chunks[1].end_line

\* C28: for a file that is not skipped, every input line lies within the
\* line range of at least one chunk that chunk_file produced, whichever
\* strategy it selected.
C28_EveryLineInSomeChunk ==
    (chunker.pc = "chunked" /\ ~FileSkipped(chunker.file_path, chunker.lines)) =>
        \A l \in 1..Len(chunker.lines) :
            \E k \in 1..Len(chunker.chunks) :
                chunker.chunks[k].start_line <= l /\ l <= chunker.chunks[k].end_line

Blocked(operation) ==
    \/ ~repo.exists
    \/ repo.status = "FAILED"
    \/ StatedOrder(repo.status) < StatedOrder(StatedMinimum(operation))

\* the error stated for a blocked call
StatedError == IF repo.exists THEN "RepoNotReadyError" ELSE "RepoNotFoundError"

\* no repository row, job row, chunk row or index file changes in this step
ReadOnlyStep == repo' = repo /\ jobs' = jobs /\ chunks' = chunks /\ files' = files

\* C30: search_code and check_api_readiness on a repository that is
\* missing, FAILED or below the required state of the operation fail with
\* the not-found or the not-ready error, and leave every repository row,
\* job row, chunk row and the index on disk unchanged.
C30_BlockedReadsFailAndChangeNothing ==
    [][/\ (search.pc = "idle" /\ search'.pc # "idle" /\ Blocked("search")) =>
            (search'.pc = "raised" /\ search'.error = StatedError /\ ReadOnlyStep)
       /\ (call' # call /\ Blocked(call'.operation)) =>
            (call'.error = StatedError /\ ReadOnlyStep)]_vars

\* a search was refused on a FAILED repository that still has the rows and
\* the index files of an earlier run, and a readiness check on it too
C30_Witness ==
    /\ search.pc = "raised"
    /\ search.error = "RepoNotReadyError"
    /\ repo.status = "FAILED"
    /\ Len(chunks) = 1
    /\ LoadExists(files)
    /\ "error" \in DOMAIN call
    /\ call.operation = "session"
    /\ call.error = "RepoNotReadyError"

\* C31: worker_loop creates at most one task for a job: a task is never
\* created for a job for which a task was created before.
C31_JobDispatchedOnce ==
    [][\A s \in Slots : TaskCreated(s) => tasks'[s].job \notin picked]_vars

\* C32: a job that its handler marked running is completed or failed once
\* the handler has returned control to the worker, whatever state the
\* repository was in: no task has ended and left its job running.
C32_NoJobRunningAfterHandler ==
    \A s \in Slots :
        (tasks[s].pc = "done" /\ tasks[s].job \in 1..Len(jobs)) =>
            jobs[tasks[s].job].status # "running"

\* a task executing an index job on a repository whose status, as the task
\* holds it, is below STRUCTURED or FAILED
IndexBelowStructured(s) ==
    /\ tasks[s].pc \notin {"free", "get_job", "get_repo", "done"}
    /\ tasks[s].ljob.type = "index"
    /\ tasks[s].lrepo.status \in {"CREATED", "CLONED", "FAILED"}

\* C33: an index job that executes while its repository has not reached
\* STRUCTURED (CREATED, CLONED or FAILED) writes no CodeChunk row and
\* neither creates nor replaces the index files of the repository.
C33_EarlyIndexJobWritesNothing ==
    [][(\E s \in Slots : IndexBelowStructured(s)) =>
        (chunks' = chunks /\ files' = files)]_vars

BacklogIds == UNION { 1..Len(st.jobs) : st \in BacklogStores }

\* the fetched ids are pending rows in creation order, and no pending row
\* left out is older than a fetched one
OldestPendingFirst(fetched) ==
    /\ \A i \in 1..Len(fetched) :
          fetched[i] \in JobIds /\ jobs[fetched[i]].status = "pending"
    /\ \A i, k \in 1..Len(fetched) : i < k => fetched[i] < fetched[k]
    /\ \A j \in JobIds :
          (jobs[j].status = "pending" /\ \A i \in 1..Len(fetched) : fetched[i] # j) =>
              \A i \in 1..Len(fetched) : fetched[i] < j

WritesIdMap(s) == tasks'[s] # tasks[s] /\ files'.id_map # files.id_map

\* C35: the id map an indexing attempt persists holds one entry per chunk
\* of that attempt, the index as many vectors, and no entry is the id of a
\* CodeChunk row that was in the table before the attempt inserted its own
\* (the rows of an earlier, aborted attempt among them).
C35_IdMapOfThisAttemptOnly ==
    [][\A s \in Slots :
          WritesIdMap(s) =>
              /\ Len(files'.id_map.ids) = tasks[s].n
              /\ files'.index.ntotal = tasks[s].n
              /\ \A i \in 1..Len(files'.id_map.ids) :
                    json_load(files'.id_map.ids)[i] \notin 1..(tasks[s].first - 1)]_vars

\* an attempt that aborted after it had committed its rows, and an attempt
\* that inserted its rows after those, saved and reached INDEXED
C35_Witness ==
    \E s, t \in Slots :
        /\ tasks[t].pc = "done" /\ tasks[t].err # None /\ tasks[t].first > 0
        /\ tasks[s].pc = "p100" /\ tasks[s].n > 0
        /\ tasks[s].first > tasks[t].first
        /\ Len(chunks) >= tasks[s].first
        /\ files.id_map.gen = tasks[s].first

\* the commit that ends an answered ask_question
QuestionPersisted == ask.pc = "commit" /\ ask'.pc = "answered"

\* C36: when an answered question has persisted its two messages, the
\* rolling summary has been recomputed from the stored messages with the
\* two of this question: it is unchanged while the session holds fewer than
\* SUMMARY_MIN_MESSAGES messages and is the summary up to this question as
\* soon as it holds that many, which is from the second answered question on.
C36_SummaryFromSecondQuestion ==
    [][QuestionPersisted =>
        IF Len(tmessages') < SUMMARY_MIN_MESSAGES
        THEN tsession'.rolling_conversation_summary = tsession.rolling_conversation_summary
        ELSE tsession'.rolling_conversation_summary = ask.q]_vars

\* line j opens a symbol that is still open at line i: every line between
\* them is blank or indented deeper than the signature at j
OpensOver(lines, j, i) ==
    /\ j < i
    /\ lines[j].kind \in {"class", "def"}
    /\ \A k \in (j + 1)..(i - 1) : lines[k].kind = "blank" \/ lines[k].indent > lines[j].indent

\* line i is the signature of a definition nested in the symbol opened at j
NestedIn(lines, j, i) ==
    /\ lines[i].kind \in {"class", "def"}
    /\ lines[i].indent > lines[j].indent
    /\ OpensOver(lines, j, i)

\* C37: in the symbol chunks of a Python file no chunk starts at the
\* signature of a nested definition, and the chunk of the enclosing symbol
\* spans that signature.
C37_NestedDefinitionsNotChunked ==
    (/\ chunker.pc = "chunked"
     /\ detect_language(chunker.file_path) = "python"
     /\ ~FileSkipped(chunker.file_path, chunker.lines)) =>
        \A i \in 1..Len(chunker.lines) : \A j \in 1..(i - 1) :
            NestedIn(chunker.lines, j, i) =>
                /\ \A k \in 1..Len(chunker.chunks) : chunker.chunks[k].start_line # i
                /\ \E k \in 1..Len(chunker.chunks) :
                      chunker.chunks[k].start_line <= j /\ chunker.chunks[k].end_line >= i

\* C38: on a store that received create_index, add_embeddings and load
\* calls the index holds as many vectors as the id map has entries, and
\* get_chunk_id(s) is the id supplied with the vector at slot s for
\* 0 <= s < size and None for every other s.
C38_IdMapInStepWithIndex ==
    search.pc = "calls" =>
        /\ StoreSize(search.vs) = Len(search.vs.id_map.ids)
        /\ \A s \in 0..(2 * MaxVectors) :
              get_chunk_id(search.vs, s) =
                  IF s < StoreSize(search.vs) THEN ChunkIdAfterFlush(s + 1) ELSE NullId

\* C39: a load call that returns False leaves the index and the id map of
\* the store as they were.
C39_FailedLoadChangesNothing ==
    [][(search.pc = "calls" /\ search'.pc = "calls" /\ search'.op = "load" /\ ~search'.ok)
          => search'.vs = search.vs]_vars

\* a step of task s inside or after the except clause of its handler, or
\* the step in which the handler raises
HandlerFails(s) == tasks'[s] # tasks[s] /\ tasks'[s].err # None

\* some task's handler has raised
HandlerRaised == \E s \in Slots : tasks[s].err # None

\* C40: a handler exception does not end worker_loop (the loop leaves
\* `while _running` only after the shutdown signal), the steps of the
\* failing task change no other task and nothing of the loop's state, and
\* a job that is pending when a handler has raised is still dispatched
\* unless the worker is signalled to stop.
C40_HandlerErrorStaysInItsTask ==
    /\ [](wpc \in {"drain", "stopped"} => ~running)
    /\ [][\A s \in Slots :
            HandlerFails(s) =>
                /\ \A t \in Slots \ {s} : tasks'[t] = tasks[t]
                /\ <<wpc, wjobs, active, running>>' = <<wpc, wjobs, active, running>>]_vars
    /\ \A j \in BacklogIds :
          (HandlerRaised /\ j \in JobIds /\ jobs[j].status = "pending")
              ~> (j \in picked \/ ~running)

\* the handler of the first job of the backlog failed, and the worker,
\* still running, has dispatched the second job
C40_Witness ==
    /\ running
    /\ wmax = 1
    /\ \E i, j \in picked :
          /\ i < j
          /\ jobs[i].status = "failed"
          /\ \E s \in Slots : tasks[s].job = j /\ tasks[s].pc \notin {"free", "done"}

====
